---- MODULE Spec2Model ----
(***************************************************************************)
(* Model of the Karlsruhe garbage calendar: the ICS extractor, the         *)
(* identity rule (uid), the calendar synthesizer (get_calendar, get_event, *)
(* prod_id), the category filter (WasteTypeBitmask) and the HTTP routes    *)
(* that feed them.                                                         *)
(*                                                                         *)
(* A Rust string is a sequence of one-character strings, so that the code  *)
(* that inspects characters (the whitespace regex of uid, the substring    *)
(* match and the byte slices of parse, the date formatting of get_event)   *)
(* is modelled by what it does.  Option<T> is a sequence of length 0 or 1, *)
(* as Option::into_iter yields it.                                         *)
(***************************************************************************)
EXTENDS Integers, Sequences, FiniteSets, TLC

VARIABLES
    pc,                    \* position of the modelled call
    route,                 \* the HTTP route that was requested
    query_params,          \* the five exclude_<category> flags of the query string
    street,                \* address: the street
    street_number,         \* address: the street number
    waste_data,            \* the WasteData handed to get_calendar
    excluded_waste_types,  \* the WasteTypeBitmask handed to get_calendar
    calendar,              \* the IcalCalendar built by get_calendar
    summary,               \* third argument of uid
    uid_out,               \* result of uid (kgc_core)
    legacy_uid_out,        \* result of uid (HTML-source client)
    other_args,            \* a second (street, street_number, summary) given to uid
    other_uid_out,         \* result of uid for the second triple
    ics,                   \* the ICS document given to parse
    parse_out,             \* result of parse
    html,                  \* the HTML document given to parse of the HTML-source client
    html_out,              \* result of parse of the HTML-source client
    net,                   \* what the network does to the request of get_response
    steps,                 \* the steps get has performed, in order
    answer,                \* what the entry point gives back: HTTP response or exit of the CLI
    file,                  \* calendar.ics in the current directory of the CLI
    reqs,                  \* the HTTP requests the server is handling concurrently
    urls                   \* the URLs the browser front-end displays

vars == <<pc, route, query_params, street, street_number, waste_data,
          excluded_waste_types, calendar, summary, uid_out, legacy_uid_out,
          other_args, other_uid_out, ics, parse_out,
          html, html_out, net, steps, answer, file, reqs, urls>>

\* The variables of the HTML extractor, of the pipeline of get, of the server and
\* of the front-end.
pipelineVars == <<html, html_out, net, steps, answer, file, reqs, urls>>

(***************************************************************************)
(* Bounds of the model.                                                    *)
(***************************************************************************)
\* Total number of collection dates in a schedule given to get_calendar.
MaxDates == 5
\* Number of characters of street, street number and label together given to uid.
MaxLen == 4
\* Number of characters of two (street, street number, label) triples together.
MaxPair == 3
\* Number of dates of one category in the schedules that populate one category.
MaxSeq == 3
\* Size of an ICS document: its calendars plus their events.
MaxItems == 4
\* Number of dates of all categories in the schedules that mix the two dates.
MaxMixed == 2

(***************************************************************************)
(* Static strings of garbage_client.rs.                                    *)
(***************************************************************************)
URL == <<"h", "t", "t", "p", "s", ":", "/", "/", "w", "e", "b", "6", ".", "k", "a", "r", "l", "s", "r", "u", "h", "e", ".", "d", "e", "/", "s", "e", "r", "v", "i", "c", "e", "/", "a", "b", "f", "a", "l", "l", "/", "a", "k", "a", "l", "/", "a", "k", "a", "l", ".", "p", "h", "p">>
PROD_ID == << <<"A", "b", "f", "u", "h", "r", "k", "a", "l", "e", "n", "d", "e", "r">>,
              <<"k", "a", "r", "l", "s", "r", "u", "h", "e", ".", "d", "e">> >>
LEGACY_PROD_ID == <<"-", "/", "/", "A", "b", "f", "u", "h", "r", "k", "a", "l", "e", "n", "d", "e", "r", "/", "/", "k", "a", "r", "l", "s", "r", "u", "h", "e", ".", "d", "e">>
TIMEZONE == <<"E", "u", "r", "o", "p", "e", "/", "B", "e", "r", "l", "i", "n">>

LABEL_RESIDUAL == <<"R", "e", "s", "t", "m", "ü", "l", "l">>
LABEL_ORGANIC == <<"B", "i", "o", "a", "b", "f", "a", "l", "l">>
LABEL_RECYCLABLE == <<"W", "e", "r", "t", "s", "t", "o", "f", "f">>
LABEL_PAPER == <<"P", "a", "p", "i", "e", "r">>
LABEL_BULKY == <<"S", "p", "e", "r", "r", "m", "ü", "l", "l", "a", "b", "h", "o", "l", "u", "n", "g">>

(***************************************************************************)
(* Strings.                                                                *)
(***************************************************************************)
\* The characters the regex class \s matches, among those the model uses.
Whitespace == {" ", "\t"}

\* [String]::join(sep)
RECURSIVE join(_, _)
join(strings, sep) ==
    IF strings = <<>> THEN <<>>
    ELSE IF Len(strings) = 1 THEN strings[1]
    ELSE strings[1] \o sep \o join(Tail(strings), sep)

\* str::contains(pattern): pattern occurs as a contiguous substring.
str_contains(s, pattern) ==
    \E i \in 0..(Len(s) - Len(pattern)) :
        \A j \in 1..Len(pattern) : s[i + j] = pattern[j]

\* Regex::new(r"\s+").replace_all(s, rep): scanning from the left, every
\* leftmost-longest run of whitespace is replaced by rep; a string without a
\* match is returned as it is.
RECURSIVE skip_whitespace(_)
skip_whitespace(s) ==
    IF s # <<>> /\ s[1] \in Whitespace THEN skip_whitespace(Tail(s)) ELSE s

\* Variant: the regex without the "+", every whitespace character is replaced.
RECURSIVE replace_each(_, _)
replace_each(s, rep) ==
    IF s = <<>> THEN <<>>
    ELSE IF s[1] \in Whitespace THEN rep \o replace_each(Tail(s), rep)
    ELSE <<s[1]>> \o replace_each(Tail(s), rep)

RECURSIVE replace_all(_, _)
replace_all(s, rep) ==
    IF \A i \in 1..Len(s) : s[i] \notin Whitespace THEN s
    ELSE IF s[1] \in Whitespace THEN rep \o replace_all(skip_whitespace(s), rep)
    ELSE <<s[1]>> \o replace_all(Tail(s), rep)

(***************************************************************************)
(* Dates (chrono::NaiveDate).                                              *)
(***************************************************************************)
is_leap_year(year) == (year % 4 = 0) /\ ((year % 100 # 0) \/ (year % 400 = 0))

days_in_month(year, month) ==
    IF month \in {4, 6, 9, 11} THEN 30
    ELSE IF month = 2 THEN (IF is_leap_year(year) THEN 29 ELSE 28)
    ELSE 31

\* NaiveDate::from_ymd_opt
from_ymd_opt(year, month, day) ==
    IF month \in 1..12 /\ day >= 1 /\ day <= days_in_month(year, month)
    THEN << [year |-> year, month |-> month, day |-> day] >>
    ELSE <<>>

Digits == <<"0", "1", "2", "3", "4", "5", "6", "7", "8", "9">>

\* The last decimal digit of n, as a character.
digit(n) == Digits[(n % 10) + 1]

\* NaiveDate::format("%Y%m%d"): the year zero-padded to four digits, the month
\* and the day to two (years 0..9999).
format_date(date) ==
    << digit(date.year \div 1000), digit(date.year \div 100), digit(date.year \div 10),
       digit(date.year),
       digit(date.month \div 10), digit(date.month),
       digit(date.day \div 10), digit(date.day) >>

(***************************************************************************)
(* The category filter: WasteTypeBitmask, a usize whose bits are a set of  *)
(* bit positions.                                                          *)
(***************************************************************************)
\* Width of usize, the default type of #[bitmask].
BITS == 64
AllBits == 0..(BITS - 1)

Residual == {0}
Organic == {1}
Recyclable == {2}
Paper == {3}
Bulky == {4}
none == {}

\* #[bitmask_config(inverted_flags)]: Inverted<Flag> is !<Flag> over the whole word.
InvertedResidual == AllBits \ Residual
InvertedOrganic == AllBits \ Organic
InvertedRecyclable == AllBits \ Recyclable
InvertedPaper == AllBits \ Paper
InvertedBulky == AllBits \ Bulky

\* Variant: the bitmask is compared with the flag instead of tested for it.
contains_exactly(self, other) == self = other

\* WasteTypeBitmask::contains: self & other == other
contains(self, other) == (self \cap other) = other

\* impl From<&QueryParams> for WasteTypeBitmask
FromQueryParams(value) ==
    LET m0 == none
        m1 == IF value.exclude_residual THEN m0 \cup Residual ELSE m0
        m2 == IF value.exclude_organic THEN m1 \cup Organic ELSE m1
        m3 == IF value.exclude_recyclable THEN m2 \cup Recyclable ELSE m2
        m4 == IF value.exclude_paper THEN m3 \cup Paper ELSE m3
        m5 == IF value.exclude_bulky THEN m4 \cup Bulky ELSE m4
    IN m5

\* The per-category handlers: handle(&street_query_params, WasteTypeBitmask::<Category>Inverted)
CategoryMask(r) ==
    CASE r = "/calendar/residual" -> InvertedResidual
      [] r = "/calendar/organic" -> InvertedOrganic
      [] r = "/calendar/recyclable" -> InvertedRecyclable
      [] r = "/calendar/paper" -> InvertedPaper
      [] r = "/calendar/bulky" -> InvertedBulky

(***************************************************************************)
(* The identity rule.                                                      *)
(***************************************************************************)
\* Variant: the fields follow each other without the separating underscores.
format_uid_unseparated(a, b, c) ==
    <<"A", "b", "f", "u", "h", "r", "k", "a", "l", "e", "n", "d", "e", "r", "_">>
    \o a \o b \o c
    \o <<"@", "k", "a", "r", "l", "s", "r", "u", "h", "e", ".", "d", "e">>

\* format!("Abfuhrkalender_{street}_{street_number}_{summary}@karlsruhe.de")
format_uid(a, b, c) ==
    <<"A", "b", "f", "u", "h", "r", "k", "a", "l", "e", "n", "d", "e", "r", "_">>
    \o a \o <<"_">> \o b \o <<"_">> \o c
    \o <<"@", "k", "a", "r", "l", "s", "r", "u", "h", "e", ".", "d", "e">>

\* Variant: the identifier names the address only, not the label.
uid_of_address(a, b, c) ==
    LET whitespace_rep == <<"-">>
    IN format_uid(replace_all(a, whitespace_rep),
                  replace_all(b, whitespace_rep),
                  <<>>)

\* uid of kgc_core (ICS-source client)
uid(a, b, c) ==
    LET whitespace_rep == <<"-">>
    IN format_uid(replace_all(a, whitespace_rep),
                  replace_all(b, whitespace_rep),
                  replace_all(c, whitespace_rep))

\* Variant: the identifier embeds a collection date in place of the label.
legacy_uid_dated(a, b, c) ==
    format_uid(replace_all(a, <<"-">>), replace_all(b, <<"-">>),
               format_date([year |-> 2023, month |-> 6, day |-> 30]))

\* uid of the HTML-source client
legacy_uid(a, b, c) ==
    LET whitespace_rep == <<"-">>
    IN format_uid(replace_all(a, whitespace_rep),
                  replace_all(b, whitespace_rep),
                  replace_all(c, whitespace_rep))

(***************************************************************************)
(* The calendar synthesizer.                                               *)
(***************************************************************************)
\* Variant: the label is pushed after PROD_ID.
prod_id_label_last(label) ==
    LET strings0 == PROD_ID
        strings1 == IF Len(label) = 1 THEN strings0 \o <<label[1]>> ELSE strings0
        strings2 == << <<"-">> >> \o strings1
    IN join(strings2, <<"/", "/">>)

\* prod_id: the label, when given, goes before PROD_ID, "-" before that; joined by "//".
prod_id(label) ==
    LET strings0 == PROD_ID
        strings1 == IF Len(label) = 1 THEN <<label[1]>> \o strings0 ELSE strings0
        strings2 == << <<"-">> >> \o strings1
    IN join(strings2, <<"/", "/">>)

\* Variant: the match names the flags instead of the inverted flags.
prod_id_label_flag(mask) ==
    IF mask = Residual THEN <<LABEL_RESIDUAL>>
    ELSE IF mask = Organic THEN <<LABEL_ORGANIC>>
    ELSE IF mask = Recyclable THEN <<LABEL_RECYCLABLE>>
    ELSE IF mask = Paper THEN <<LABEL_PAPER>>
    ELSE IF mask = Bulky THEN <<LABEL_BULKY>>
    ELSE <<>>

\* get_calendar: the match that selects the label of the product identifier.
prod_id_label(mask) ==
    IF mask = InvertedResidual THEN <<LABEL_RESIDUAL>>
    ELSE IF mask = InvertedOrganic THEN <<LABEL_ORGANIC>>
    ELSE IF mask = InvertedRecyclable THEN <<LABEL_RECYCLABLE>>
    ELSE IF mask = InvertedPaper THEN <<LABEL_PAPER>>
    ELSE IF mask = InvertedBulky THEN <<LABEL_BULKY>>
    ELSE <<>>

\* Variant: the earliest date by value is the start.
one_day_earliest(dates) ==
    LET key(d) == d.year * 10000 + d.month * 100 + d.day
    IN format_date(dates[CHOOSE i \in 1..Len(dates) :
                             \A j \in 1..Len(dates) : key(dates[i]) <= key(dates[j])])

\* get_event: the argument of one_day, dates.get(0).unwrap().format(FORMAT)
one_day(dates) == format_date(dates[1])

\* get_event: the value of RDATE, every date formatted and joined by ","
rdate(dates) == join([i \in 1..Len(dates) |-> format_date(dates[i])], <<",">>)

\* format!("{street} {street_number}, Karlsruhe")
location(a, b) ==
    a \o <<" ">> \o b \o <<",", " ", "K", "a", "r", "l", "s", "r", "u", "h", "e">>

\* Variant: the identifier embeds the reading of the clock.
get_event_stamped_uid(a, b, dates, label, changed) ==
    IF dates = <<>> THEN <<>>
    ELSE << [ TZID |-> TIMEZONE,
              UID |-> uid(a, b, label) \o changed,
              CHANGED |-> changed,
              DTSTART |-> one_day(dates),
              SUMMARY |-> label,
              RDATE |-> rdate(dates),
              RDATE_VALUE |-> <<"D", "A", "T", "E">>,
              LOCATION |-> location(a, b),
              DESCRIPTION |-> URL,
              TRANSP |-> <<"T", "R", "A", "N", "S", "P", "A", "R", "E", "N", "T">> ] >>

\* get_event: None for no dates, else the event of the category.
get_event(a, b, dates, label, changed) ==
    IF dates = <<>> THEN <<>>
    ELSE << [ TZID |-> TIMEZONE,
              UID |-> uid(a, b, label),
              CHANGED |-> changed,
              DTSTART |-> one_day(dates),
              SUMMARY |-> label,
              RDATE |-> rdate(dates),
              RDATE_VALUE |-> <<"D", "A", "T", "E">>,
              LOCATION |-> location(a, b),
              DESCRIPTION |-> URL,
              TRANSP |-> <<"T", "R", "A", "N", "S", "P", "A", "R", "E", "N", "T">> ] >>

\* Variant: the exclusion is not looked at.
pushed_unfiltered(event, excluded, waste_type_bitmask) ==
    IF Len(event) = 1 THEN event ELSE <<>>

\* get_calendar: if let (Some(event), false) = (get_event(..), excluded.contains(bit)) { push }
pushed(event, excluded, waste_type_bitmask) ==
    IF Len(event) = 1 /\ contains(excluded, waste_type_bitmask) = FALSE
    THEN event ELSE <<>>

\* Variant: the array starts with the bulky waste.
waste_types_bulky_first(data) ==
    << [label |-> LABEL_BULKY, dates |-> data.bulky_waste, waste_type_bitmask |-> Bulky],
       [label |-> LABEL_RESIDUAL, dates |-> data.residual_waste, waste_type_bitmask |-> Residual],
       [label |-> LABEL_ORGANIC, dates |-> data.organic_waste, waste_type_bitmask |-> Organic],
       [label |-> LABEL_RECYCLABLE, dates |-> data.recyclable_waste, waste_type_bitmask |-> Recyclable],
       [label |-> LABEL_PAPER, dates |-> data.paper_waste, waste_type_bitmask |-> Paper] >>

\* get_calendar: the array the loop runs over, in its order.
waste_types(data) ==
    << [label |-> LABEL_RESIDUAL, dates |-> data.residual_waste, waste_type_bitmask |-> Residual],
       [label |-> LABEL_ORGANIC, dates |-> data.organic_waste, waste_type_bitmask |-> Organic],
       [label |-> LABEL_RECYCLABLE, dates |-> data.recyclable_waste, waste_type_bitmask |-> Recyclable],
       [label |-> LABEL_PAPER, dates |-> data.paper_waste, waste_type_bitmask |-> Paper],
       [label |-> LABEL_BULKY, dates |-> data.bulky_waste, waste_type_bitmask |-> Bulky] >>

\* Variant: the clock is read again for every event after the first.
RECURSIVE push_events_clock_per_event(_, _, _, _, _)
push_events_clock_per_event(a, b, entries, excluded, changed) ==
    IF entries = <<>> THEN <<>>
    ELSE pushed(get_event(a, b, entries[1].dates, entries[1].label, changed),
                excluded, entries[1].waste_type_bitmask)
         \o push_events_clock_per_event(a, b, Tail(entries), excluded,
                <<"2", "0", "2", "3", "0", "6", "0", "1", "T", "0", "8", "0", "0", "0", "2">>)

\* get_calendar: the loop over the array; changed was read before the loop.
RECURSIVE push_events(_, _, _, _, _)
push_events(a, b, entries, excluded, changed) ==
    IF entries = <<>> THEN <<>>
    ELSE pushed(get_event(a, b, entries[1].dates, entries[1].label, changed),
                excluded, entries[1].waste_type_bitmask)
         \o push_events(a, b, Tail(entries), excluded, changed)

\* get_calendar of kgc_core; changed is the reading of the local clock.
get_calendar(a, b, data, excluded, changed) ==
    [ VERSION |-> <<"2", ".", "0">>,
      PRODID |-> prod_id(prod_id_label(excluded)),
      events |-> push_events(a, b, waste_types(data), excluded, changed) ]

\* get_calendar of the HTML-source client: the closure build_event.
build_event(a, b, dates, label, changed) ==
    IF Len(dates) = 0 THEN <<>>
    ELSE << [ TZID |-> TIMEZONE,
              UID |-> legacy_uid(a, b, label),
              CHANGED |-> changed,
              DTSTART |-> format_date(dates[1]),
              SUMMARY |-> label,
              RDATE |-> join([i \in 1..Len(dates) |-> format_date(dates[i])], <<",">>),
              RDATE_VALUE |-> <<"D", "A", "T", "E">>,
              LOCATION |-> location(a, b),
              DESCRIPTION |-> URL ] >>

\* get_calendar of the HTML-source client: five if-let blocks in a fixed order.
legacy_get_calendar(a, b, data, excluded, changed) ==
    LET block(dates, label, bit) ==
            LET event == build_event(a, b, dates, label, changed)
            IN IF Len(event) = 1 /\ contains(excluded, bit) = FALSE THEN event ELSE <<>>
    IN [ VERSION |-> <<"2", ".", "0">>,
         PRODID |-> LEGACY_PROD_ID,
         events |-> block(data.residual_waste, LABEL_RESIDUAL, Residual)
                    \o block(data.organic_waste, LABEL_ORGANIC, Organic)
                    \o block(data.recyclable_waste, LABEL_RECYCLABLE, Recyclable)
                    \o block(data.paper_waste, LABEL_PAPER, Paper)
                    \o block(data.bulky_waste, LABEL_BULKY, Bulky) ]

(***************************************************************************)
(* Inputs of the synthesizer.                                              *)
(***************************************************************************)
\* Collection dates; the second is earlier than the first.
Dates == { [year |-> 2023, month |-> 6, day |-> 30],
           [year |-> 2023, month |-> 6, day |-> 7] }

\* All sequences of at most n dates of the pool.
DateSeqs(pool, n) == UNION { [1..k -> pool] : k \in 0..n }

\* All sequences of n date sequences over the pool holding at most budget dates together.
RECURSIVE Allocations(_, _, _)
Allocations(pool, n, budget) ==
    IF n = 0 THEN { <<>> }
    ELSE UNION { { <<dates>> \o rest : rest \in Allocations(pool, n - 1, budget - Len(dates)) } :
                 dates \in DateSeqs(pool, budget) }

WasteData(t) ==
    [ residual_waste |-> t[1], organic_waste |-> t[2], recyclable_waste |-> t[3],
      paper_waste |-> t[4], bulky_waste |-> t[5] ]

\* Schedules in which the categories share at most MaxDates collections of one day.
SharedSchedules ==
    { WasteData(t) : t \in Allocations({[year |-> 2023, month |-> 7, day |-> 12]}, 5, MaxDates) }

\* Schedules in which one category holds any sequence of at most MaxSeq dates.
SingleSchedules ==
    { WasteData([i \in 1..5 |-> IF i = c THEN dates ELSE <<>>]) :
          c \in 1..5, dates \in DateSeqs(Dates, MaxSeq) }

\* Schedules in which the categories hold at most MaxMixed dates together, the
\* date of a later category before or after the date of an earlier one.
MixedSchedules ==
    { WasteData(t) : t \in Allocations(Dates, 5, MaxMixed) }

Schedules == SharedSchedules \cup SingleSchedules \cup MixedSchedules

NoWasteData ==
    [ residual_waste |-> <<>>, organic_waste |-> <<>>, recyclable_waste |-> <<>>,
      paper_waste |-> <<>>, bulky_waste |-> <<>> ]

Addresses ==
    { [street |-> <<"A", "m", " ", "W", "a", "l", "d">>, street_number |-> <<"1", " ", "a">>] }

\* Readings of chrono::Local::now().format("%Y%m%dT%H%M%S")
Now == { <<"2", "0", "2", "3", "0", "6", "0", "1", "T", "0", "8", "0", "0", "0", "0">>,
         <<"2", "0", "2", "3", "0", "6", "0", "1", "T", "0", "8", "0", "0", "0", "1">> }

CategoryRoutes ==
    { "/calendar/residual", "/calendar/organic", "/calendar/recyclable",
      "/calendar/paper", "/calendar/bulky" }

QueryParams ==
    [ exclude_residual : BOOLEAN, exclude_organic : BOOLEAN, exclude_recyclable : BOOLEAN,
      exclude_paper : BOOLEAN, exclude_bulky : BOOLEAN ]

\* #[serde(default)]: a flag that is not given is false.
DefaultQueryParams ==
    [ exclude_residual |-> FALSE, exclude_organic |-> FALSE, exclude_recyclable |-> FALSE,
      exclude_paper |-> FALSE, exclude_bulky |-> FALSE ]

NoCalendar == [ VERSION |-> <<>>, PRODID |-> <<>>, events |-> <<>> ]

\* The HTML extractor, the pipeline of get and the server before they are used.
NoPipeline ==
    /\ html = <<>>
    /\ html_out = <<>>
    /\ net = "none"
    /\ steps = <<>>
    /\ answer = <<>>
    /\ file = <<>>
    /\ reqs = <<>>
    /\ urls = <<>>

(***************************************************************************)
(* Specification of the synthesizer behind the HTTP routes.                *)
(***************************************************************************)
InitCalendar ==
    /\ pc = "start"
    /\ route \in {"/calendar"} \cup CategoryRoutes
    /\ query_params \in (IF route = "/calendar" THEN QueryParams ELSE {DefaultQueryParams})
    /\ \E address \in Addresses :
           /\ street = address.street
           /\ street_number = address.street_number
    /\ waste_data \in Schedules
    /\ excluded_waste_types = none
    /\ calendar = NoCalendar
    /\ summary = <<>>
    /\ uid_out = <<>>
    /\ legacy_uid_out = <<>>
    /\ other_args = <<>>
    /\ other_uid_out = <<>>
    /\ NoPipeline
    /\ ics = <<>>
    /\ parse_out = <<>>

\* route::calendar::handler: the flags become the bitmask, get builds the calendar.
Handler ==
    /\ pc = "start"
    /\ route = "/calendar"
    /\ excluded_waste_types' = FromQueryParams(query_params)
    /\ \E changed \in Now :
           calendar' = get_calendar(street, street_number, waste_data,
                                    FromQueryParams(query_params), changed)
    /\ pc' = "done"
    /\ UNCHANGED <<route, query_params, street, street_number, waste_data,
                   summary, uid_out, legacy_uid_out, other_args, other_uid_out,
                   ics, parse_out>>
    /\ UNCHANGED pipelineVars

\* route::calendar::<category>::handler: the inverted flag is the bitmask.
CategoryHandler ==
    /\ pc = "start"
    /\ route \in CategoryRoutes
    /\ excluded_waste_types' = CategoryMask(route)
    /\ \E changed \in Now :
           calendar' = get_calendar(street, street_number, waste_data,
                                    CategoryMask(route), changed)
    /\ pc' = "done"
    /\ UNCHANGED <<route, query_params, street, street_number, waste_data,
                   summary, uid_out, legacy_uid_out, other_args, other_uid_out,
                   ics, parse_out>>
    /\ UNCHANGED pipelineVars

\* handler of the HTML-source server: bulky_waste is an Option there.
LegacyHandler ==
    /\ pc = "start"
    /\ route = "/calendar"
    /\ Len(waste_data.bulky_waste) <= 1
    /\ excluded_waste_types' = FromQueryParams(query_params)
    /\ \E changed \in Now :
           calendar' = legacy_get_calendar(street, street_number, waste_data,
                                           FromQueryParams(query_params), changed)
    /\ pc' = "legacy_done"
    /\ UNCHANGED <<route, query_params, street, street_number, waste_data,
                   summary, uid_out, legacy_uid_out, other_args, other_uid_out,
                   ics, parse_out>>
    /\ UNCHANGED pipelineVars

NextCalendar == Handler \/ CategoryHandler \/ LegacyHandler

SpecCalendar == InitCalendar /\ [][NextCalendar]_vars

(***************************************************************************)
(* The ICS extractor.                                                      *)
(***************************************************************************)
\* str::parse::<i32>() (signed) and str::parse::<u32>(): an optional sign, then
\* one or more decimal digits; Err is the empty Option.
digit_value(ch) == CHOOSE d \in 0..9 : Digits[d + 1] = ch

is_digit(ch) == \E d \in 0..9 : Digits[d + 1] = ch

RECURSIVE digits_value(_)
digits_value(s) ==
    IF s = <<>> THEN 0
    ELSE digits_value(SubSeq(s, 1, Len(s) - 1)) * 10 + digit_value(s[Len(s)])

parse_int(s, signed) ==
    LET negative == signed /\ s # <<>> /\ s[1] = "-"
        body == IF s # <<>> /\ (s[1] = "+" \/ negative) THEN Tail(s) ELSE s
    IN IF body = <<>> \/ (\E i \in 1..Len(body) : ~is_digit(body[i])) THEN <<>>
       ELSE IF negative THEN << 0 - digits_value(body) >>
       ELSE << digits_value(body) >>

\* parse: the closure that decodes DTSTART.  The three slices are taken and
\* parsed from left to right; a slice past the end of the string panics, a
\* slice that is no number ends the closure with None.
decode_dtstart(dt_start) ==
    IF Len(dt_start) < 4 THEN [panic |-> TRUE, value |-> <<>>]
    ELSE LET year == parse_int(SubSeq(dt_start, 1, 4), TRUE)
         IN IF year = <<>> THEN [panic |-> FALSE, value |-> <<>>]
            ELSE IF Len(dt_start) < 6 THEN [panic |-> TRUE, value |-> <<>>]
            ELSE LET month == parse_int(SubSeq(dt_start, 5, 6), FALSE)
                 IN IF month = <<>> THEN [panic |-> FALSE, value |-> <<>>]
                    ELSE IF Len(dt_start) < 8 THEN [panic |-> TRUE, value |-> <<>>]
                    ELSE LET day == parse_int(SubSeq(dt_start, 7, 8), FALSE)
                         IN IF day = <<>> THEN [panic |-> FALSE, value |-> <<>>]
                            ELSE [panic |-> FALSE,
                                  value |-> from_ymd_opt(year[1], month[1], day[1])]

\* GetIcalProperty::get_ical_property_value: the value of the first property of that name.
get_ical_property_value(event, name) ==
    LET found == { i \in 1..Len(event) : event[i].name = name }
    IN IF found = {} THEN <<>>
       ELSE event[CHOOSE i \in found : \A j \in found : i <= j].value

\* Variant: an else-if chain, the first matching label takes the date.
push_date_first_match(data, s, date) ==
    IF str_contains(s, LABEL_RESIDUAL)
    THEN [data EXCEPT !.residual_waste = Append(@, date)]
    ELSE IF str_contains(s, LABEL_ORGANIC)
    THEN [data EXCEPT !.organic_waste = Append(@, date)]
    ELSE IF str_contains(s, LABEL_RECYCLABLE)
    THEN [data EXCEPT !.recyclable_waste = Append(@, date)]
    ELSE IF str_contains(s, LABEL_PAPER)
    THEN [data EXCEPT !.paper_waste = Append(@, date)]
    ELSE IF str_contains(s, LABEL_BULKY)
    THEN [data EXCEPT !.bulky_waste = Append(@, date)]
    ELSE data

\* parse: the five independent substring tests that append the date.
push_date(data, s, date) ==
    LET d1 == IF str_contains(s, LABEL_RESIDUAL)
              THEN [data EXCEPT !.residual_waste = Append(@, date)] ELSE data
        d2 == IF str_contains(s, LABEL_ORGANIC)
              THEN [d1 EXCEPT !.organic_waste = Append(@, date)] ELSE d1
        d3 == IF str_contains(s, LABEL_RECYCLABLE)
              THEN [d2 EXCEPT !.recyclable_waste = Append(@, date)] ELSE d2
        d4 == IF str_contains(s, LABEL_PAPER)
              THEN [d3 EXCEPT !.paper_waste = Append(@, date)] ELSE d3
        d5 == IF str_contains(s, LABEL_BULKY)
              THEN [d4 EXCEPT !.bulky_waste = Append(@, date)] ELSE d4
    IN d5

\* parse: the body of the loop over the events of one calendar.
parse_event(data, ical_event) ==
    LET summary_option == get_ical_property_value(ical_event, "SUMMARY")
        dt_start == get_ical_property_value(ical_event, "DTSTART")
        date_option == IF dt_start = <<>> THEN [panic |-> FALSE, value |-> <<>>]
                       ELSE decode_dtstart(dt_start[1])
    IN IF date_option.panic THEN [panic |-> TRUE, data |-> data]
       ELSE IF summary_option # <<>> /\ date_option.value # <<>>
            THEN [panic |-> FALSE,
                  data |-> push_date(data, summary_option[1], date_option.value[1])]
       ELSE [panic |-> FALSE, data |-> data]

RECURSIVE parse_events(_, _)
parse_events(data, events) ==
    IF events = <<>> THEN [panic |-> FALSE, data |-> data]
    ELSE LET r == parse_event(data, events[1])
         IN IF r.panic THEN r ELSE parse_events(r.data, Tail(events))

\* Variant: an Err ends the loop and parse returns what it has collected.
RECURSIVE parse_calendars_partial(_, _)
parse_calendars_partial(data, results) ==
    IF results = <<>> THEN [status |-> "ok", waste_data |-> data]
    ELSE IF results[1].err THEN [status |-> "ok", waste_data |-> data]
    ELSE LET r == parse_events(data, results[1].events)
         IN IF r.panic THEN [status |-> "panic", waste_data |-> NoWasteData]
            ELSE parse_calendars_partial(r.data, Tail(results))

\* parse: the loop over the calendars the IcalParser yields; an Err ends parse.
RECURSIVE parse_calendars(_, _)
parse_calendars(data, results) ==
    IF results = <<>> THEN [status |-> "ok", waste_data |-> data]
    ELSE IF results[1].err THEN [status |-> "err", waste_data |-> NoWasteData]
    ELSE LET r == parse_events(data, results[1].events)
         IN IF r.panic THEN [status |-> "panic", waste_data |-> NoWasteData]
            ELSE parse_calendars(r.data, Tail(results))

\* parse of kgc_core: ics is the stream of Result<IcalCalendar> the IcalParser yields.
parse(document) == parse_calendars(NoWasteData, document)

(***************************************************************************)
(* Inputs of the ICS extractor.                                            *)
(***************************************************************************)
Some(x) == << x >>

Property(name, value) == [name |-> name, value |-> value]

EventPool ==
    { << Property("SUMMARY", Some(LABEL_RESIDUAL)),
         Property("DTSTART", Some(<<"2", "0", "2", "3", "0", "6", "3", "0">>)) >>,
      << Property("SUMMARY", Some(<<"B", "i", "o", "a", "b", "f", "a", "l", "l", ",", " ", "W", "e", "r", "t", "s", "t", "o", "f", "f">>)),
         Property("DTSTART", Some(<<"2", "0", "2", "3", "0", "6", "0", "7">>)) >>,
      << Property("DTSTART", Some(<<"2", "0", "2", "4", "0", "2", "2", "9", "T", "0", "0", "0", "0", "0", "0">>)),
         Property("SUMMARY", Some(LABEL_PAPER)) >>,
      << Property("SUMMARY", Some(LABEL_BULKY)),
         Property("DTSTART", Some(<<"2", "0", "2", "3", "0", "6", "3", "0">>)) >>,
      << Property("SUMMARY", Some(<<"A", "l", "t", "g", "l", "a", "s">>)),
         Property("DTSTART", Some(<<"2", "0", "2", "3", "0", "6", "0", "7">>)) >>,
      << Property("DTSTART", Some(<<"2", "0", "2", "3", "0", "6", "3", "0">>)) >>,
      << Property("SUMMARY", Some(LABEL_RESIDUAL)) >>,
      << Property("SUMMARY", Some(LABEL_ORGANIC)),
         Property("DTSTART", Some(<<"2", "0", "2", "3", "0", "2", "3", "0">>)) >>,
      << Property("SUMMARY", Some(LABEL_RECYCLABLE)),
         Property("DTSTART", Some(<<"2", "0", "2", "3", "0", "6", "3", "X">>)) >>,
      << Property("SUMMARY", Some(LABEL_PAPER)),
         Property("DTSTART", Some(<<"2", "0", "2", "3">>)) >>,
      << Property("SUMMARY", Some(LABEL_RESIDUAL)),
         Property("DTSTART", Some(<<"+", "2", "2", "3", "0", "6", "+", "7">>)) >> }

EventSeqs(n) == UNION { [1..k -> EventPool] : k \in 0..n }

\* What the IcalParser yields for one calendar of at most n events: Err or the calendar.
CalendarResults(n) ==
    { [err |-> TRUE, events |-> <<>>] }
    \cup { [err |-> FALSE, events |-> events] : events \in EventSeqs(n) }

\* Documents whose calendars and events are at most budget together.
RECURSIVE Documents(_)
Documents(budget) ==
    IF budget = 0 THEN { <<>> }
    ELSE { <<>> }
         \cup UNION { { <<c>> \o rest : rest \in Documents(budget - 1 - Len(c.events)) } :
                      c \in CalendarResults(budget - 1) }

(***************************************************************************)
(* Specification of the ICS extractor.                                     *)
(***************************************************************************)
InitParse ==
    /\ pc = "start"
    /\ ics \in Documents(MaxItems)
    /\ parse_out = [status |-> "none", waste_data |-> NoWasteData]
    /\ route = "none"
    /\ query_params = DefaultQueryParams
    /\ street = <<>>
    /\ street_number = <<>>
    /\ waste_data = NoWasteData
    /\ excluded_waste_types = none
    /\ calendar = NoCalendar
    /\ summary = <<>>
    /\ uid_out = <<>>
    /\ legacy_uid_out = <<>>
    /\ other_args = <<>>
    /\ other_uid_out = <<>>
    /\ NoPipeline

\* get: let waste_data = parse(&response.text().await?)?
Parse ==
    /\ pc = "start"
    /\ parse_out' = parse(ics)
    /\ pc' = "parsed"
    /\ UNCHANGED <<route, query_params, street, street_number, waste_data,
                   excluded_waste_types, calendar, summary, uid_out, legacy_uid_out,
                   other_args, other_uid_out, ics>>
    /\ UNCHANGED pipelineVars

NextParse == Parse

SpecParse == InitParse /\ [][NextParse]_vars

(***************************************************************************)
(* Inputs and specifications of the identity rule.                         *)
(***************************************************************************)
Strings(alphabet, n) == UNION { [1..k -> alphabet] : k \in 0..n }

\* All sequences of n strings over the alphabet holding at most budget characters together.
RECURSIVE Fields(_, _, _)
Fields(alphabet, n, budget) ==
    IF n = 0 THEN { <<>> }
    ELSE UNION { { <<f>> \o rest : rest \in Fields(alphabet, n - 1, budget - Len(f)) } :
                 f \in Strings(alphabet, budget) }

UidAlphabet == {"a", " ", "\t", "-", "_"}

PairAlphabet == {"a", " ", "-", "_"}

InitUid ==
    /\ pc = "start"
    /\ \E t \in Fields(UidAlphabet, 3, MaxLen) :
           /\ street = t[1]
           /\ street_number = t[2]
           /\ summary = t[3]
    /\ uid_out = <<>>
    /\ legacy_uid_out = <<>>
    /\ other_args = <<>>
    /\ other_uid_out = <<>>
    /\ NoPipeline
    /\ route = "none"
    /\ query_params = DefaultQueryParams
    /\ waste_data = NoWasteData
    /\ excluded_waste_types = none
    /\ calendar = NoCalendar
    /\ ics = <<>>
    /\ parse_out = <<>>

\* get_event of kgc_core derives the UID of the event it builds, whatever its dates.
GetEventUid ==
    /\ pc = "start"
    /\ \E dates \in DateSeqs(Dates, 1) \ { <<>> } : \E changed \in Now :
           uid_out' = get_event(street, street_number, dates, summary, changed)[1].UID
    /\ pc' = "core"
    /\ UNCHANGED <<route, query_params, street, street_number, waste_data,
                   excluded_waste_types, calendar, summary, legacy_uid_out,
                   other_args, other_uid_out, ics, parse_out>>
    /\ UNCHANGED pipelineVars

\* build_event of the HTML-source client derives the UID of the same event.
BuildEventUid ==
    /\ pc = "core"
    /\ \E dates \in DateSeqs(Dates, 1) \ { <<>> } : \E changed \in Now :
           legacy_uid_out' = build_event(street, street_number, dates, summary, changed)[1].UID
    /\ pc' = "both"
    /\ UNCHANGED <<route, query_params, street, street_number, waste_data,
                   excluded_waste_types, calendar, summary, uid_out,
                   other_args, other_uid_out, ics, parse_out>>
    /\ UNCHANGED pipelineVars

NextUid == GetEventUid \/ BuildEventUid

SpecUid == InitUid /\ [][NextUid]_vars

InitUidPair ==
    /\ pc = "start"
    /\ \E t \in Fields(PairAlphabet, 6, MaxPair) :
           /\ street = t[1]
           /\ street_number = t[2]
           /\ summary = t[3]
           /\ other_args = [street |-> t[4], street_number |-> t[5], summary |-> t[6]]
    /\ uid_out = <<>>
    /\ legacy_uid_out = <<>>
    /\ other_uid_out = <<>>
    /\ NoPipeline
    /\ route = "none"
    /\ query_params = DefaultQueryParams
    /\ waste_data = NoWasteData
    /\ excluded_waste_types = none
    /\ calendar = NoCalendar
    /\ ics = <<>>
    /\ parse_out = <<>>

\* uid applied to two (street, street_number, summary) triples.
UidPair ==
    /\ pc = "start"
    /\ uid_out' = uid(street, street_number, summary)
    /\ other_uid_out' = uid(other_args.street, other_args.street_number, other_args.summary)
    /\ pc' = "pair"
    /\ UNCHANGED <<route, query_params, street, street_number, waste_data,
                   excluded_waste_types, calendar, summary, legacy_uid_out,
                   other_args, ics, parse_out>>
    /\ UNCHANGED pipelineVars

NextUidPair == UidPair

SpecUidPair == InitUidPair /\ [][NextUidPair]_vars

(***************************************************************************)
(* Properties of the synthesizer.                                          *)
(***************************************************************************)
\* The categories in canonical order: Residual, Organic, Recyclable, Paper, Bulky.
Categories == 1..5

CategoryLabel(c) ==
    <<LABEL_RESIDUAL, LABEL_ORGANIC, LABEL_RECYCLABLE, LABEL_PAPER, LABEL_BULKY>>[c]

CategoryDates(data, c) ==
    <<data.residual_waste, data.organic_waste, data.recyclable_waste,
      data.paper_waste, data.bulky_waste>>[c]

CategoryFlag(q, c) ==
    <<q.exclude_residual, q.exclude_organic, q.exclude_recyclable,
      q.exclude_paper, q.exclude_bulky>>[c]

CategoryBit(c) == <<Residual, Organic, Recyclable, Paper, Bulky>>[c]

CategoryRoute(c) ==
    <<"/calendar/residual", "/calendar/organic", "/calendar/recyclable",
      "/calendar/paper", "/calendar/bulky">>[c]

\* The categories the request asks to leave out: the flagged ones on /calendar,
\* all but the route's own on a per-category route.
ExcludedCategories ==
    IF route = "/calendar" THEN { c \in Categories : CategoryFlag(query_params, c) }
    ELSE { c \in Categories : CategoryRoute(c) # route }

\* The categories that have dates and are not left out.
IncludedCategories ==
    { c \in Categories : CategoryDates(waste_data, c) # <<>> /\ c \notin ExcludedCategories }

EventsOf(cal, c) == SelectSeq(cal.events, LAMBDA e : e.SUMMARY = CategoryLabel(c))

EventsBut(cal, c) == SelectSeq(cal.events, LAMBDA e : e.SUMMARY # CategoryLabel(c))

WithoutTimestamp(events) == [i \in 1..Len(events) |-> [events[i] EXCEPT !.CHANGED = <<>>]]

PlainProdId ==
    <<"-", "/", "/", "A", "b", "f", "u", "h", "r", "k", "a", "l", "e", "n", "d", "e", "r",
      "/", "/", "k", "a", "r", "l", "s", "r", "u", "h", "e", ".", "d", "e">>

\* The pieces of a string between its commas.
RECURSIVE SplitComma(_)
SplitComma(s) ==
    LET commas == { i \in 1..Len(s) : s[i] = "," }
    IN IF commas = {} THEN << s >>
       ELSE LET first == CHOOSE i \in commas : \A j \in commas : i <= j
            IN << SubSeq(s, 1, first - 1) >> \o SplitComma(SubSeq(s, first + 1, Len(s)))

\* s is the eight digits YYYYMMDD of the date.
IsYYYYMMDD(s, date) ==
    /\ Len(s) = 8
    /\ \A i \in 1..8 : is_digit(s[i])
    /\ digits_value(SubSeq(s, 1, 4)) = date.year
    /\ digits_value(SubSeq(s, 5, 6)) = date.month
    /\ digits_value(SubSeq(s, 7, 8)) = date.day

\* The reading of the clock at another run of get_calendar.
LaterReading == <<"2", "0", "2", "3", "0", "6", "0", "1", "T", "0", "8", "0", "0", "0", "1">>

\* C1: get_calendar emits an event for a category if and only if the category has
\* dates and is not excluded, and the calendar holds as many events as there are
\* such categories.
C1_EventIffDatedAndNotExcluded ==
    pc \in {"done", "legacy_done"} =>
        /\ \A c \in Categories : (EventsOf(calendar, c) # <<>>) <=> (c \in IncludedCategories)
        /\ Len(calendar.events) = Cardinality(IncludedCategories)

C1_Witness ==
    /\ pc = "done"
    /\ Len(calendar.events) >= 1
    /\ \E c \in ExcludedCategories : CategoryDates(waste_data, c) # <<>>
    /\ \E c \in Categories \ ExcludedCategories : CategoryDates(waste_data, c) = <<>>

\* C2: in every emitted event DTSTART is the first date of the category's sequence
\* as YYYYMMDD, and RDATE is every date of the sequence as YYYYMMDD, joined by
\* commas in sequence order, nothing sorted, nothing removed.
C2_DtstartFirstRdateAll ==
    pc \in {"done", "legacy_done"} =>
        \A c \in Categories : \A i \in 1..Len(EventsOf(calendar, c)) :
            LET event == EventsOf(calendar, c)[i]
                dates == CategoryDates(waste_data, c)
                pieces == SplitComma(event.RDATE)
            IN /\ IsYYYYMMDD(event.DTSTART, dates[1])
               /\ Len(pieces) = Len(dates)
               /\ \A k \in 1..Len(dates) : IsYYYYMMDD(pieces[k], dates[k])

C2_Witness ==
    /\ pc = "done"
    /\ \E c \in IncludedCategories :
           LET dates == CategoryDates(waste_data, c)
           IN /\ Len(dates) = 3
              /\ dates[1] = dates[3]
              /\ dates[2].day < dates[1].day /\ dates[2].month = dates[1].month
              /\ EventsOf(calendar, c) # <<>>

\* C3: adding one category to the exclusion set removes exactly that category's
\* event from the calendar and leaves every other event as it was, the timestamp
\* aside.
C3_ExcludingRemovesOnlyThatEvent ==
    pc = "done" =>
        \A c \in Categories :
            WithoutTimestamp(get_calendar(street, street_number, waste_data,
                                          excluded_waste_types \cup CategoryBit(c),
                                          LaterReading).events)
            = WithoutTimestamp(EventsBut(calendar, c))

C3_Witness ==
    /\ pc = "done"
    /\ Cardinality(IncludedCategories) >= 3
    /\ ExcludedCategories # {}

\* C4: with the include-only-C value of the per-category route the product
\* identifier is "-//<label of C>//Abfuhrkalender//karlsruhe.de" and the events
\* are exactly C's event when C has dates, none otherwise.
C4_CategoryRouteProdIdAndEvent ==
    (pc = "done" /\ route \in CategoryRoutes) =>
        LET c == CHOOSE k \in Categories : CategoryRoute(k) = route
        IN /\ calendar.PRODID = <<"-", "/", "/">> \o CategoryLabel(c) \o SubSeq(PlainProdId, 2, 31)
           /\ CategoryDates(waste_data, c) = <<>> => calendar.events = <<>>
           /\ CategoryDates(waste_data, c) # <<>> =>
                  /\ Len(calendar.events) = 1
                  /\ calendar.events[1].SUMMARY = CategoryLabel(c)
                  /\ \A changed \in Now :
                         WithoutTimestamp(calendar.events)
                         = WithoutTimestamp(EventsOf(get_calendar(street, street_number,
                                                                  waste_data, none, changed), c))

C4_Witness ==
    /\ pc = "done"
    /\ route = "/calendar/paper"
    /\ Len(calendar.events) = 1
    /\ \E c \in Categories : c # 4 /\ CategoryDates(waste_data, c) # <<>>

\* C5: when zero, one, two, three or all five categories are excluded, the product
\* identifier is "-//Abfuhrkalender//karlsruhe.de" and carries no label.
C5_NoLabelUnlessComplementOfOne ==
    (pc = "done" /\ route = "/calendar" /\ Cardinality(ExcludedCategories) # 4) =>
        calendar.PRODID = PlainProdId

C5_Witness ==
    /\ pc = "done"
    /\ route = "/calendar"
    /\ Cardinality(ExcludedCategories) = 1
    /\ calendar.events # <<>>

\* C6: the exclusion value built from the flags of the four other categories is
\* consumed like the include-only-C value of the per-category route: the same
\* product identifier and the same events.
C6_FlagsOfFourLikeCategoryRoute ==
    (pc = "done" /\ route = "/calendar" /\ Cardinality(ExcludedCategories) = 4) =>
        LET c == CHOOSE k \in Categories : k \notin ExcludedCategories
        IN \A changed \in Now :
               LET only == get_calendar(street, street_number, waste_data,
                                        CategoryMask(CategoryRoute(c)), changed)
               IN /\ calendar.PRODID = only.PRODID
                  /\ WithoutTimestamp(calendar.events) = WithoutTimestamp(only.events)

(***************************************************************************)
(* Properties of the identity rule.                                        *)
(***************************************************************************)
\* s with every maximal run of whitespace characters replaced by one hyphen:
\* the characters kept are those that are no whitespace or start a run.
Collapsed(s) ==
    LET kept == { i \in 1..Len(s) : s[i] \notin Whitespace \/ i = 1 \/ s[i - 1] \notin Whitespace }
        nth(j) == CHOOSE i \in kept : Cardinality({ k \in kept : k <= i }) = j
    IN [ j \in 1..Cardinality(kept) |-> IF s[nth(j)] \in Whitespace THEN "-" ELSE s[nth(j)] ]

Identifier(a, b, c) ==
    <<"A", "b", "f", "u", "h", "r", "k", "a", "l", "e", "n", "d", "e", "r">>
    \o <<"_">> \o a \o <<"_">> \o b \o <<"_">> \o c \o <<"@">>
    \o <<"k", "a", "r", "l", "s", "r", "u", "h", "e", ".", "d", "e">>

HasWhitespaceRun(s) ==
    \E i \in 1..(Len(s) - 1) : s[i] \in Whitespace /\ s[i + 1] \in Whitespace /\ s[i] # s[i + 1]

\* C7: uid returns "Abfuhrkalender_<street>_<number>_<label>@karlsruhe.de", each
\* field with every maximal whitespace run replaced by one hyphen and otherwise
\* unchanged.
C7_UidCollapsesWhitespaceRuns ==
    /\ pc \in {"core", "both"} =>
           uid_out = Identifier(Collapsed(street), Collapsed(street_number), Collapsed(summary))
    /\ pc = "both" =>
           legacy_uid_out = Identifier(Collapsed(street), Collapsed(street_number),
                                       Collapsed(summary))

C7_Witness ==
    /\ pc = "both"
    /\ HasWhitespaceRun(street)
    /\ Len(street) = 3
    /\ summary # <<>>

\* C8 as claimed: two triples that differ in a field get different identifiers.
C8_UidInjective ==
    (pc = "pair" /\ <<street, street_number, summary>>
                    # <<other_args.street, other_args.street_number, other_args.summary>>)
        => uid_out # other_uid_out

NoUnderscore(s) == \A i \in 1..Len(s) : s[i] # "_"

\* C8 as amended: two triples whose streets and numbers hold no underscore and
\* whose whitespace-collapsed fields differ in a field get different identifiers.
C8_UidInjectiveOnCollapsedFields ==
    ( /\ pc = "pair"
      /\ NoUnderscore(street) /\ NoUnderscore(street_number)
      /\ NoUnderscore(other_args.street) /\ NoUnderscore(other_args.street_number)
      /\ <<Collapsed(street), Collapsed(street_number), Collapsed(summary)>>
         # <<Collapsed(other_args.street), Collapsed(other_args.street_number),
             Collapsed(other_args.summary)>> )
        => uid_out # other_uid_out

C8_Witness ==
    /\ pc = "pair"
    /\ NoUnderscore(street) /\ NoUnderscore(street_number)
    /\ NoUnderscore(other_args.street) /\ NoUnderscore(other_args.street_number)
    /\ street = <<"a">> /\ street_number = <<>> /\ summary = <<"_">>
    /\ other_args.street = <<>> /\ other_args.street_number = <<"a">>
    /\ uid_out # other_uid_out

\* C9: the identity rule of the HTML-source client and the one of the ICS-source
\* client return the same identifier, and the identifier of an event is the same
\* whatever the collection dates of the event.
C9_UidSameInBothClients ==
    pc = "both" =>
        /\ uid_out = legacy_uid_out
        /\ \A dates \in DateSeqs(Dates, 2) \ { <<>> } :
               /\ get_event(street, street_number, dates, summary, LaterReading)[1].UID
                  = legacy_uid_out
               /\ build_event(street, street_number, dates, summary, LaterReading)[1].UID
                  = uid_out

C9_Witness ==
    /\ pc = "both"
    /\ \E i \in 1..Len(street) : street[i] \in Whitespace
    /\ \E i \in 1..Len(summary) : summary[i] = "_"
    /\ uid_out = legacy_uid_out

(***************************************************************************)
(* Properties of the ICS extractor.                                        *)
(***************************************************************************)
\* The events of a document, in document order.
RECURSIVE AllEvents(_)
AllEvents(document) ==
    IF document = <<>> THEN <<>>
    ELSE document[1].events \o AllEvents(Tail(document))

Values(event, name) == SelectSeq(event, LAMBDA p : p.name = name)

Occurs(pattern, s) ==
    \E i \in 1..(Len(s) - Len(pattern) + 1) : SubSeq(s, i, i + Len(pattern) - 1) = pattern

\* The year, month and day that the first eight characters of dt spell, each an
\* Option that is empty when the characters are no number.
Year(dt) == parse_int(SubSeq(dt, 1, 4), TRUE)

Month(dt) == parse_int(SubSeq(dt, 5, 6), FALSE)

Day(dt) == parse_int(SubSeq(dt, 7, 8), FALSE)

\* dt starts with the year, month and day of a calendar date.
Decodable(dt) ==
    /\ Len(dt) >= 8
    /\ Year(dt) # <<>> /\ Month(dt) # <<>> /\ Day(dt) # <<>>
    /\ Month(dt)[1] \in 1..12
    /\ Day(dt)[1] \in 1..days_in_month(Year(dt)[1], Month(dt)[1])

DateOf(dt) == [ year |-> Year(dt)[1], month |-> Month(dt)[1], day |-> Day(dt)[1] ]

\* The events of the document that have SUMMARY and a decodable DTSTART and whose
\* SUMMARY holds the label of the category.
Matching(document, c) ==
    SelectSeq(AllEvents(document),
              LAMBDA e : /\ Values(e, "SUMMARY") # <<>>
                         /\ Values(e, "DTSTART") # <<>>
                         /\ Decodable(Values(e, "DTSTART")[1].value[1])
                         /\ Occurs(CategoryLabel(c), Values(e, "SUMMARY")[1].value[1]))

\* C10: the date of every event with SUMMARY and a decodable DTSTART is appended
\* to the sequence of every category whose label occurs in SUMMARY, and each
\* sequence lists its dates in the order of the events in the document.
C10_DatesOfMatchingEventsInOrder ==
    (pc = "parsed" /\ parse_out.status = "ok") =>
        \A c \in Categories :
            CategoryDates(parse_out.waste_data, c)
            = [ i \in 1..Len(Matching(ics, c)) |->
                    DateOf(Values(Matching(ics, c)[i], "DTSTART")[1].value[1]) ]

C10_Witness ==
    /\ pc = "parsed"
    /\ parse_out.status = "ok"
    /\ Len(parse_out.waste_data.residual_waste) = 2
    /\ parse_out.waste_data.organic_waste # <<>>
    /\ parse_out.waste_data.organic_waste = parse_out.waste_data.recyclable_waste

\* C11: an event with no SUMMARY or with a DTSTART that cannot be decoded (absent,
\* shorter than 8 characters, no number, no calendar date) is skipped: parse of a
\* document whose calendars all tokenize returns, and returns the dates of the
\* other events.
C11_UndecodableEventsSkipped ==
    (pc = "parsed" /\ \A i \in 1..Len(ics) : ~ics[i].err) =>
        /\ parse_out.status = "ok"
        /\ \A c \in Categories :
               CategoryDates(parse_out.waste_data, c)
               = [ i \in 1..Len(Matching(ics, c)) |->
                       DateOf(Values(Matching(ics, c)[i], "DTSTART")[1].value[1]) ]

(***************************************************************************)
(* The HTML extractor (parse of the HTML-source client).                   *)
(*                                                                         *)
(* The document is the sequence of its elements of class row, in document  *)
(* order; of a row the extractor reads the inner markup of the first       *)
(* descendant of class col_3-2 (the type), col_3-3 (the dates) and col_4-3 *)
(* (the bulky date), each an Option.                                       *)
(***************************************************************************)
\* Regex \d is a decimal digit of any script; the element "U+0663" is the one
\* character ARABIC-INDIC DIGIT THREE and stands for the digits that are not ASCII.
RegexDigits == { Digits[i] : i \in 1..10 } \cup { "U+0663" }

\* Regex \w: here, every character that is no whitespace and no punctuation.
is_word(ch) == ch \notin Whitespace \cup { ">", "<", ".", ",", "/" }

\* The first position from i on that holds no whitespace (Len(s) + 1 if none).
RECURSIVE skip_spaces(_, _)
skip_spaces(s, i) ==
    IF i <= Len(s) /\ s[i] \in Whitespace THEN skip_spaces(s, i + 1) ELSE i

\* (?P<day>\d{2})\.(?P<month>\d{2})\.(?P<year>\d{4}) at position j of s.
captures_at(s, j) ==
    IF /\ j + 9 <= Len(s)
       /\ \A k \in {0, 1, 3, 4, 6, 7, 8, 9} : s[j + k] \in RegexDigits
       /\ s[j + 2] = "." /\ s[j + 5] = "."
    THEN << [ day |-> SubSeq(s, j, j + 1), month |-> SubSeq(s, j + 3, j + 4),
              year |-> SubSeq(s, j + 6, j + 9), end |-> j + 9 ] >>
    ELSE <<>>

\* date_regex at position i of s: the end of a tag, whitespace, two word
\* characters, a dot, "den" between two whitespace characters, the date.
date_regex_at(s, i) ==
    IF s[i] # ">" THEN <<>>
    ELSE LET j == skip_spaces(s, i + 1)
         IN IF /\ j + 7 <= Len(s)
               /\ is_word(s[j]) /\ is_word(s[j + 1]) /\ s[j + 2] = "."
               /\ s[j + 3] \in Whitespace
               /\ SubSeq(s, j + 4, j + 6) = <<"d", "e", "n">>
               /\ s[j + 7] \in Whitespace
            THEN captures_at(s, j + 8)
            ELSE <<>>

\* bulky_waste_date_regex at position i of s: the end of a tag, whitespace, the date.
bulky_waste_date_regex_at(s, i) ==
    IF s[i] # ">" THEN <<>> ELSE captures_at(s, skip_spaces(s, i + 1))

\* Regex::captures_iter of date_regex: the matches from position i on, leftmost
\* first and not overlapping.
RECURSIVE captures_iter(_, _)
captures_iter(s, i) ==
    IF i > Len(s) THEN <<>>
    ELSE LET m == date_regex_at(s, i)
         IN IF m = <<>> THEN captures_iter(s, i + 1)
            ELSE m \o captures_iter(s, m[1].end + 1)

\* Variant: the leftmost match that spells a calendar date.
RECURSIVE captures_first_valid(_, _)
captures_first_valid(s, i) ==
    IF i > Len(s) THEN <<>>
    ELSE LET m == bulky_waste_date_regex_at(s, i)
         IN IF m = <<>> THEN captures_first_valid(s, i + 1)
            ELSE IF /\ parse_int(m[1].day, FALSE) # <<>>
                    /\ parse_int(m[1].month, FALSE) # <<>>
                    /\ parse_int(m[1].year, TRUE) # <<>>
                    /\ from_ymd_opt(parse_int(m[1].year, TRUE)[1],
                                    parse_int(m[1].month, FALSE)[1],
                                    parse_int(m[1].day, FALSE)[1]) = <<>>
            THEN captures_first_valid(s, i + 1)
            ELSE m

\* Regex::captures of bulky_waste_date_regex: the leftmost match from position i on.
RECURSIVE captures(_, _)
captures(s, i) ==
    IF i > Len(s) THEN <<>>
    ELSE LET m == bulky_waste_date_regex_at(s, i)
         IN IF m = <<>> THEN captures(s, i + 1) ELSE m

\* Variant: the first group is read as the month and the second as the day.
date_from_captures_month_first(c) ==
    LET day == parse_int(c.month, FALSE)
        month == parse_int(c.day, FALSE)
        year == parse_int(c.year, TRUE)
    IN IF day = <<>> \/ month = <<>> \/ year = <<>> THEN [panic |-> TRUE, value |-> <<>>]
       ELSE [panic |-> FALSE, value |-> from_ymd_opt(year[1], month[1], day[1])]

\* parse: the closure date_from_captures; unwrap of a group that str::parse
\* rejects panics.
date_from_captures(c) ==
    LET day == parse_int(c.day, FALSE)
        month == parse_int(c.month, FALSE)
        year == parse_int(c.year, TRUE)
    IN IF day = <<>> \/ month = <<>> \/ year = <<>> THEN [panic |-> TRUE, value |-> <<>>]
       ELSE [panic |-> FALSE, value |-> from_ymd_opt(year[1], month[1], day[1])]

\* Variant: the dates up to the first match that is no calendar date.
RECURSIVE filter_map_until_invalid(_)
filter_map_until_invalid(matches) ==
    IF matches = <<>> THEN [panic |-> FALSE, value |-> <<>>]
    ELSE LET d == date_from_captures(matches[1])
         IN IF d.panic THEN [panic |-> TRUE, value |-> <<>>]
            ELSE IF d.value = <<>> THEN [panic |-> FALSE, value |-> <<>>]
            ELSE LET rest == filter_map_until_invalid(Tail(matches))
                 IN IF rest.panic THEN [panic |-> TRUE, value |-> <<>>]
                    ELSE [panic |-> FALSE, value |-> d.value \o rest.value]

\* parse: the closure find_dates, filter_map of date_from_captures over the matches.
RECURSIVE filter_map(_)
filter_map(matches) ==
    IF matches = <<>> THEN [panic |-> FALSE, value |-> <<>>]
    ELSE LET d == date_from_captures(matches[1])
             rest == filter_map(Tail(matches))
         IN IF d.panic \/ rest.panic THEN [panic |-> TRUE, value |-> <<>>]
            ELSE [panic |-> FALSE, value |-> d.value \o rest.value]

find_dates(inner_html) == filter_map(captures_iter(inner_html, 1))

\* parse: an arm of the match for Residual, Organic, Recyclable or Paper.  A row
\* without date column ends the loop (break).
RECURSIVE parse_rows(_, _)
dates_arm(data, rows, field) ==
    LET date_col == rows[1].date_col
    IN IF date_col = <<>> THEN [status |-> "ok", waste_data |-> data]
       ELSE LET found == find_dates(date_col[1])
            IN IF found.panic THEN [status |-> "panic", waste_data |-> NoWasteData]
               ELSE parse_rows([data EXCEPT ![field] = found.value], Tail(rows))

\* parse: the arm of the match for Bulky.
bulky_arm(data, rows) ==
    LET date_col == rows[1].bulky_col
    IN IF date_col = <<>> THEN [status |-> "ok", waste_data |-> data]
       ELSE LET m == captures(date_col[1], 1)
                found == IF m = <<>> THEN [panic |-> FALSE, value |-> <<>>]
                         ELSE date_from_captures(m[1])
            IN IF found.panic THEN [status |-> "panic", waste_data |-> NoWasteData]
               ELSE parse_rows([data EXCEPT !.bulky_waste = found.value], Tail(rows))

\* Variant: the arm of Paper comes first in the match.
parse_rows_paper_first(data, rows) ==
    IF rows = <<>> THEN [status |-> "ok", waste_data |-> data]
    ELSE IF rows[1].type_col = <<>> THEN parse_rows(data, Tail(rows))
    ELSE LET type_col_inner_html == rows[1].type_col[1]
         IN IF str_contains(type_col_inner_html, LABEL_PAPER)
            THEN dates_arm(data, rows, "paper_waste")
            ELSE IF str_contains(type_col_inner_html, LABEL_RESIDUAL)
            THEN dates_arm(data, rows, "residual_waste")
            ELSE IF str_contains(type_col_inner_html, LABEL_ORGANIC)
            THEN dates_arm(data, rows, "organic_waste")
            ELSE IF str_contains(type_col_inner_html, LABEL_RECYCLABLE)
            THEN dates_arm(data, rows, "recyclable_waste")
            ELSE IF str_contains(type_col_inner_html, LABEL_BULKY)
            THEN bulky_arm(data, rows)
            ELSE parse_rows(data, Tail(rows))

\* parse: the loop over the rows.
parse_rows(data, rows) ==
    IF rows = <<>> THEN [status |-> "ok", waste_data |-> data]
    ELSE IF rows[1].type_col = <<>> THEN parse_rows(data, Tail(rows))
    ELSE LET type_col_inner_html == rows[1].type_col[1]
         IN IF str_contains(type_col_inner_html, LABEL_RESIDUAL)
            THEN dates_arm(data, rows, "residual_waste")
            ELSE IF str_contains(type_col_inner_html, LABEL_ORGANIC)
            THEN dates_arm(data, rows, "organic_waste")
            ELSE IF str_contains(type_col_inner_html, LABEL_RECYCLABLE)
            THEN dates_arm(data, rows, "recyclable_waste")
            ELSE IF str_contains(type_col_inner_html, LABEL_PAPER)
            THEN dates_arm(data, rows, "paper_waste")
            ELSE IF str_contains(type_col_inner_html, LABEL_BULKY)
            THEN bulky_arm(data, rows)
            ELSE parse_rows(data, Tail(rows))

\* parse of the HTML-source client; bulky_waste is an Option.
legacy_parse(rows) == parse_rows(NoWasteData, rows)

(***************************************************************************)
(* Inputs of the HTML extractor.                                           *)
(***************************************************************************)
\* Rows and date fragments of a document, together.
MaxMarkup == 3

\* Pieces of the inner markup of a date column: two dates, a day that the month
\* does not have, a date that follows no tag, a date in digits that are not ASCII.
DateFragments ==
    { <<"<", "b", "r", ">", "F", "r", ".", " ", "d", "e", "n", " ", "3", "0", ".", "0", "6", ".", "2", "0", "2", "3">>,
      <<"<", "b", "r", ">", " ", "M", "i", ".", " ", "d", "e", "n", " ", "0", "7", ".", "0", "6", ".", "2", "0", "2", "3">>,
      <<"<", "b", "r", ">", "D", "o", ".", " ", "d", "e", "n", " ", "3", "0", ".", "0", "2", ".", "2", "0", "2", "3">>,
      <<" ", "F", "r", ".", " ", "d", "e", "n", " ", "1", "4", ".", "0", "7", ".", "2", "0", "2", "3">>,
      <<"<", "b", "r", ">", "F", "r", ".", " ", "d", "e", "n", " ", "U+0663", "0", ".", "0", "6", ".", "2", "0", "2", "3">> }

\* The inner markups made of k fragments.
RECURSIVE MarkupsOf(_)
MarkupsOf(k) ==
    IF k = 0 THEN { <<>> }
    ELSE { f \o m : f \in DateFragments, m \in MarkupsOf(k - 1) }

BulkyMarkups ==
    { <<"<", "b", ">", "1", "2", ".", "0", "7", ".", "2", "0", "2", "3", "<", "/", "b", ">">>,
      <<"<", "b", ">", "3", "1", ".", "0", "6", ".", "2", "0", "2", "3", "<", "/", "b", ">">>,
      <<"1", "2", ".", "0", "7", ".", "2", "0", "2", "3">>,
      <<"<", "b", ">", " ", "1", "2", ".", "0", "7", ".", "2", "0", "2", "3", "<", "b", "r", ">", "1", "3", ".", "0", "7", ".", "2", "0", "2", "3">>,
      <<"<", "b", ">", "3", "1", ".", "0", "6", ".", "2", "0", "2", "3", "<", "b", "r", ">", "1", "2", ".", "0", "7", ".", "2", "0", "2", "3">> }

\* Inner markups of the type column: a label, two labels (the one of the later
\* arm first), no label.
TypeLabels ==
    { LABEL_RESIDUAL, LABEL_PAPER, LABEL_PAPER \o <<",", " ">> \o LABEL_RESIDUAL,
      <<"A", "l", "t", "g", "l", "a", "s">> }

Row(type_col, date_col, bulky_col) ==
    [type_col |-> type_col, date_col |-> date_col, bulky_col |-> bulky_col]

\* The rows with k date fragments.
HtmlRows(k) ==
    IF k = 0
    THEN { Row(<<>>, <<>>, <<>>) }
         \cup { Row(Some(t), d, <<>>) : t \in TypeLabels, d \in { <<>>, Some(<<>>) } }
         \cup { Row(Some(LABEL_BULKY), <<>>, b) :
                    b \in { <<>> } \cup { Some(m) : m \in BulkyMarkups } }
    ELSE { Row(Some(t), Some(m), <<>>) : t \in TypeLabels, m \in MarkupsOf(k) }

\* The documents whose rows and date fragments are at most budget together.
RECURSIVE HtmlDocuments(_)
HtmlDocuments(budget) ==
    { <<>> }
    \cup UNION { { <<r>> \o rest : r \in HtmlRows(k), rest \in HtmlDocuments(budget - 1 - k) } :
                 k \in 0..(budget - 1) }

\* The documents of two rows of one category, a date fragment in each.
RepeatedRowDocuments ==
    { << Row(Some(t), Some(first), <<>>), Row(Some(t), Some(second), <<>>) >> :
          t \in { LABEL_RESIDUAL, LABEL_PAPER },
          first \in MarkupsOf(1), second \in MarkupsOf(1) }

(***************************************************************************)
(* Specification of the HTML extractor.                                    *)
(***************************************************************************)
NoSynthesis ==
    /\ route = "none"
    /\ query_params = DefaultQueryParams
    /\ street = <<>>
    /\ street_number = <<>>
    /\ waste_data = NoWasteData
    /\ excluded_waste_types = none
    /\ calendar = NoCalendar
    /\ summary = <<>>
    /\ uid_out = <<>>
    /\ legacy_uid_out = <<>>
    /\ other_args = <<>>
    /\ other_uid_out = <<>>

\* A document of HtmlDocuments(MaxMarkup) is drawn by its first row and its rest.
InitHtml ==
    /\ pc = "start"
    /\ \/ html = <<>>
       \/ \E k \in 0..(MaxMarkup - 1) :
              \E rest \in HtmlDocuments(MaxMarkup - 1 - k) :
                  \E r \in HtmlRows(k) : html = <<r>> \o rest
       \/ html \in RepeatedRowDocuments
    /\ html_out = [status |-> "none", waste_data |-> NoWasteData]
    /\ ics = <<>>
    /\ parse_out = <<>>
    /\ net = "none"
    /\ steps = <<>>
    /\ answer = <<>>
    /\ file = <<>>
    /\ reqs = <<>>
    /\ urls = <<>>
    /\ NoSynthesis

\* get of the HTML-source client: let waste_data = parse(&response.text().await?)?
LegacyParse ==
    /\ pc = "start"
    /\ html_out' = legacy_parse(html)
    /\ pc' = "html_parsed"
    /\ UNCHANGED <<route, query_params, street, street_number, waste_data,
                   excluded_waste_types, calendar, summary, uid_out, legacy_uid_out,
                   other_args, other_uid_out, ics, parse_out,
                   html, net, steps, answer, file, reqs, urls>>

NextHtml == LegacyParse

SpecHtml == InitHtml /\ [][NextHtml]_vars

(***************************************************************************)
(* Properties of the HTML extractor.                                       *)
(***************************************************************************)
\* The category whose arm of the match takes the row: the first label, in the
\* order of the arms, that the type column holds; 0 when there is none.
Arm(row) ==
    IF row.type_col = <<>> THEN 0
    ELSE LET held == { c \in Categories : Occurs(CategoryLabel(c), row.type_col[1]) }
         IN IF held = {} THEN 0 ELSE CHOOSE c \in held : \A d \in held : c <= d

\* The column the arm of the row reads its dates from.
DateColumn(row) == IF Arm(row) = 5 THEN row.bulky_col ELSE row.date_col

\* The row is of a category and has no date column.
LacksDateColumn(row) == Arm(row) # 0 /\ DateColumn(row) = <<>>

RemoveAt(rows, i) == SubSeq(rows, 1, i - 1) \o SubSeq(rows, i + 1, Len(rows))

\* C13: the HTML extractor returns a schedule for every input, and a category no
\* row names is empty in it.
C13_HtmlParseNeverFails ==
    pc = "html_parsed" =>
        /\ html_out.status = "ok"
        /\ \A c \in Categories :
               (\A i \in 1..Len(html) : Arm(html[i]) # c)
                   => CategoryDates(html_out.waste_data, c) = <<>>

\* C14: a row of a category that has no date column contributes nothing, and the
\* other rows of the document are extracted as if the row were not there.
C14_RowWithoutDatesAbsorbed ==
    pc = "html_parsed" =>
        \A i \in 1..Len(html) :
            (LacksDateColumn(html[i]) /\ legacy_parse(RemoveAt(html, i)).status = "ok")
                => html_out = legacy_parse(RemoveAt(html, i))

\* "<weekday abbreviation>. den DD.MM.YYYY" starts at position j of s.
DateTextAt(s, j) ==
    /\ j + 17 <= Len(s)
    /\ is_word(s[j]) /\ is_word(s[j + 1]) /\ s[j + 2] = "."
    /\ s[j + 3] \in Whitespace
    /\ SubSeq(s, j + 4, j + 6) = <<"d", "e", "n">>
    /\ s[j + 7] \in Whitespace
    /\ \A k \in {8, 9, 11, 12, 14, 15, 16, 17} : is_digit(s[j + k])
    /\ s[j + 10] = "." /\ s[j + 13] = "."

\* Position j of s follows the end of a tag: a ">" and nothing but whitespace.
FollowsTag(s, j) ==
    \E i \in 1..(j - 1) : s[i] = ">" /\ \A k \in (i + 1)..(j - 1) : s[k] \in Whitespace

\* The dates that the texts starting at the positions spell, in the order of the
\* positions, those that are no calendar date left out.
RECURSIVE DatesAt(_, _)
DatesAt(s, positions) ==
    IF positions = {} THEN <<>>
    ELSE LET j == CHOOSE p \in positions : \A q \in positions : p <= q
             day == digits_value(SubSeq(s, j + 8, j + 9))
             month == digits_value(SubSeq(s, j + 11, j + 12))
             year == digits_value(SubSeq(s, j + 14, j + 17))
             date == IF month \in 1..12 /\ day \in 1..days_in_month(year, month)
                     THEN << [year |-> year, month |-> month, day |-> day] >>
                     ELSE <<>>
         IN date \o DatesAt(s, positions \ {j})

\* The rows the scan gets to: the rows up to the first that lacks its date column.
ReachedRows ==
    { i \in 1..Len(html) : \A k \in 1..(i - 1) : ~LacksDateColumn(html[k]) }

\* The row that decides the sequence of category c: the last row of c with a
\* date column that the scan gets to.
DecidingRows(c) ==
    { i \in ReachedRows : /\ Arm(html[i]) = c
                          /\ html[i].date_col # <<>>
                          /\ \A k \in ReachedRows :
                                 (Arm(html[k]) = c /\ html[k].date_col # <<>>) => k <= i }

FromHandlerQueryParams(value) ==
    (IF value.exclude_residual THEN Residual ELSE none)
    \cup (IF value.exclude_organic THEN Organic ELSE none)
    \cup (IF value.exclude_recyclable THEN Recyclable ELSE none)
    \cup (IF value.exclude_paper THEN Paper ELSE none)
    \cup (IF value.exclude_bulky THEN Bulky ELSE none)

\* Variant: the last flag sets the bit of Paper.
FromArgumentsPaperTwice(value) ==
    (IF value.exclude_residual THEN Residual ELSE none)
    \cup (IF value.exclude_organic THEN Organic ELSE none)
    \cup (IF value.exclude_recyclable THEN Recyclable ELSE none)
    \cup (IF value.exclude_paper THEN Paper ELSE none)
    \cup (IF value.exclude_bulky THEN Paper ELSE none)

\* impl From<&Arguments> for WasteTypeBitmask of kgc_cli
FromArguments(value) ==
    (IF value.exclude_residual THEN Residual ELSE none)
    \cup (IF value.exclude_organic THEN Organic ELSE none)
    \cup (IF value.exclude_recyclable THEN Recyclable ELSE none)
    \cup (IF value.exclude_paper THEN Paper ELSE none)
    \cup (IF value.exclude_bulky THEN Bulky ELSE none)

\* impl From<&CliArgs> for WasteTypeBitmask of src/cli.rs
FromCliArgs(value) ==
    (IF value.exclude_residual THEN Residual ELSE none)
    \cup (IF value.exclude_organic THEN Organic ELSE none)
    \cup (IF value.exclude_recyclable THEN Recyclable ELSE none)
    \cup (IF value.exclude_paper THEN Paper ELSE none)
    \cup (IF value.exclude_bulky THEN Bulky ELSE none)

HttpEntries == { "/calendar", "handler" } \cup CategoryRoutes

CliEntries == { "cli", "legacy_cli" }

\* The exclusion value the entry point hands to get.
EntryMask(entry, value) ==
    IF entry = "/calendar" THEN FromQueryParams(value)
    ELSE IF entry = "handler" THEN FromHandlerQueryParams(value)
    ELSE IF entry = "cli" THEN FromArguments(value)
    ELSE IF entry = "legacy_cli" THEN FromCliArgs(value)
    ELSE CategoryMask(entry)

\* err.to_string() of the error get returns, by the step that failed.
ErrorText(failed) ==
    IF failed = "failed_send" THEN "error sending request"
    ELSE IF failed = "failed_text" THEN "error decoding response body"
    ELSE "ical parse error"

Failed == { "failed_send", "failed_text", "failed_parse" }

\* calendar.ics as it is before the CLI runs: absent, or left by an earlier run;
\* writes counts the calls of std::fs::write of this run.
NoFile == [exists |-> FALSE, content |-> NoCalendar, writes |-> 0]

OldFile == [exists |-> TRUE, content |-> NoCalendar, writes |-> 0]

NoAnswer == [kind |-> "none"]

(***************************************************************************)
(* Inputs of the pipeline.                                                 *)
(***************************************************************************)
EventOf(label, dt_start) ==
    << Property("SUMMARY", Some(label)), Property("DTSTART", Some(dt_start)) >>

GoodCalendar ==
    [err |-> FALSE,
     events |-> << EventOf(LABEL_RESIDUAL, <<"2", "0", "2", "3", "0", "6", "3", "0">>),
                   EventOf(LABEL_PAPER, <<"2", "0", "2", "3", "0", "6", "0", "7">>) >>]

ShortCalendar ==
    [err |-> FALSE,
     events |-> << EventOf(LABEL_PAPER, <<"2", "0", "2", "3", "0", "6", "0", "7">>),
                   EventOf(LABEL_PAPER, <<"2", "0", "2", "3">>) >>]

ErrCalendar == [err |-> TRUE, events |-> <<>>]

\* The documents the official server answers with, a calendar more for every
\* step of MaxItems.
FetchedDocuments ==
    LET pool == { <<>>, <<GoodCalendar>>, <<ErrCalendar>>, <<GoodCalendar, ErrCalendar>>,
                  <<ShortCalendar>>, <<ShortCalendar, ErrCalendar>>,
                  <<GoodCalendar, GoodCalendar, ErrCalendar>>,
                  <<GoodCalendar, GoodCalendar, GoodCalendar, ErrCalendar>>,
                  <<GoodCalendar, GoodCalendar, GoodCalendar, GoodCalendar, ErrCalendar>> }
    IN { d \in pool : Len(d) <= MaxItems - 2 }

\* What becomes of the POST: a response with a success status, no response
\* (send fails), a response whose body cannot be read (text fails), a response
\* with an error status such as 404 or 500 (send returns it like any response).
Outcomes == { "ok", "send_err", "text_err", "status_err" }

(***************************************************************************)
(* Specification of the pipeline.                                          *)
(***************************************************************************)
InitGet ==
    /\ pc = "start"
    /\ route \in HttpEntries \cup CliEntries
    /\ query_params \in (IF route \in CategoryRoutes THEN { DefaultQueryParams } ELSE QueryParams)
    /\ \E address \in Addresses : street = address.street /\ street_number = address.street_number
    /\ net \in Outcomes
    /\ ics \in FetchedDocuments
    /\ file \in (IF route \in CliEntries THEN { NoFile, OldFile } ELSE { NoFile })
    /\ parse_out = [status |-> "none", waste_data |-> NoWasteData]
    /\ waste_data = NoWasteData
    /\ excluded_waste_types = none
    /\ calendar = NoCalendar
    /\ steps = <<>>
    /\ answer = NoAnswer
    /\ summary = <<>>
    /\ uid_out = <<>>
    /\ legacy_uid_out = <<>>
    /\ other_args = <<>>
    /\ other_uid_out = <<>>
    /\ html = <<>>
    /\ html_out = <<>>
    /\ reqs = <<>>
    /\ urls = <<>>

\* The entry point builds the exclusion value and calls get.
Call ==
    /\ pc = "start"
    /\ excluded_waste_types' = EntryMask(route, query_params)
    /\ pc' = "get"
    /\ UNCHANGED <<route, query_params, street, street_number, waste_data, calendar,
                   summary, uid_out, legacy_uid_out, other_args, other_uid_out, ics,
                   parse_out, html, html_out, net, steps, answer, file, reqs, urls>>

\* Variant: get_response sends the request again when sending failed.
SendRetrying ==
    /\ pc = "get"
    /\ steps' = IF net = "send_err" THEN steps \o <<"fetch", "fetch">>
                ELSE Append(steps, "fetch")
    /\ pc' = IF net = "send_err" THEN "failed_send" ELSE "response"
    /\ UNCHANGED <<route, query_params, street, street_number, waste_data,
                   excluded_waste_types, calendar, summary, uid_out, legacy_uid_out,
                   other_args, other_uid_out, ics, parse_out, html, html_out, net,
                   answer, file, reqs, urls>>

\* get: get_response(street, street_number).await? -- one POST; an error of send
\* is returned by get.
Send ==
    /\ pc = "get"
    /\ steps' = Append(steps, "fetch")
    /\ pc' = IF net = "send_err" THEN "failed_send" ELSE "response"
    /\ UNCHANGED <<route, query_params, street, street_number, waste_data,
                   excluded_waste_types, calendar, summary, uid_out, legacy_uid_out,
                   other_args, other_uid_out, ics, parse_out, html, html_out, net,
                   answer, file, reqs, urls>>

\* get: response.text().await? -- the body of the response of the one request.
Text ==
    /\ pc = "response"
    /\ pc' = IF net = "text_err" THEN "failed_text" ELSE "text"
    /\ UNCHANGED <<route, query_params, street, street_number, waste_data,
                   excluded_waste_types, calendar, summary, uid_out, legacy_uid_out,
                   other_args, other_uid_out, ics, parse_out, html, html_out, net,
                   steps, answer, file, reqs, urls>>

\* get: let waste_data = parse(..)?
ParseText ==
    /\ pc = "text"
    /\ parse_out' = parse(ics)
    /\ steps' = Append(steps, "parse")
    /\ waste_data' = parse_out'.waste_data
    /\ pc' = IF parse_out'.status = "ok" THEN "parsed"
             ELSE IF parse_out'.status = "err" THEN "failed_parse"
             ELSE "panicked"
    /\ UNCHANGED <<route, query_params, street, street_number,
                   excluded_waste_types, calendar, summary, uid_out, legacy_uid_out,
                   other_args, other_uid_out, ics, html, html_out, net,
                   answer, file, reqs, urls>>

\* get: let calendar = get_calendar(street, street_number, waste_data, excluded_waste_types)
Synthesize ==
    /\ pc = "parsed"
    /\ \E changed \in Now :
           calendar' = get_calendar(street, street_number, waste_data,
                                    excluded_waste_types, changed)
    /\ steps' = Append(steps, "synthesize")
    /\ pc' = "got"
    /\ UNCHANGED <<route, query_params, street, street_number, waste_data,
                   excluded_waste_types, summary, uid_out, legacy_uid_out,
                   other_args, other_uid_out, ics, parse_out, html, html_out, net,
                   answer, file, reqs, urls>>

\* handle and handler: Ok is answered with the generated calendar as text/calendar,
\* Err with INTERNAL_SERVER_ERROR and the text of the error.
Respond ==
    /\ route \in HttpEntries
    /\ pc \in { "got" } \cup Failed
    /\ answer' = IF pc = "got"
                 THEN [kind |-> "response", status |-> 200,
                       content_type |-> "text/calendar", body |-> calendar]
                 ELSE [kind |-> "response", status |-> 500,
                       content_type |-> "text/plain", body |-> ErrorText(pc)]
    /\ pc' = "done"
    /\ UNCHANGED <<route, query_params, street, street_number, waste_data,
                   excluded_waste_types, calendar, summary, uid_out, legacy_uid_out,
                   other_args, other_uid_out, ics, parse_out, html, html_out, net,
                   steps, file, reqs, urls>>

\* main of kgc_cli and run_cli: Ok writes calendar.ics and exits with 0, Err is
\* returned from main before the file is touched.
Exit ==
    /\ route \in CliEntries
    /\ pc \in { "got" } \cup Failed
    /\ file' = IF pc = "got"
               THEN [exists |-> TRUE, content |-> calendar, writes |-> file.writes + 1]
               ELSE file
    /\ answer' = IF pc = "got" THEN [kind |-> "exit", code |-> 0, error |-> ""]
                 ELSE [kind |-> "exit", code |-> 1, error |-> ErrorText(pc)]
    /\ pc' = "done"
    /\ UNCHANGED <<route, query_params, street, street_number, waste_data,
                   excluded_waste_types, calendar, summary, uid_out, legacy_uid_out,
                   other_args, other_uid_out, ics, parse_out, html, html_out, net,
                   steps, reqs, urls>>

\* A panic in parse unwinds through get: the task of the HTTP connection ends
\* without a response, the process of the CLI ends with the exit code of a panic.
Abort ==
    /\ pc = "panicked"
    /\ answer' = IF route \in HttpEntries THEN [kind |-> "connection closed"]
                 ELSE [kind |-> "exit", code |-> 101, error |-> "panic"]
    /\ pc' = "done"
    /\ UNCHANGED <<route, query_params, street, street_number, waste_data,
                   excluded_waste_types, calendar, summary, uid_out, legacy_uid_out,
                   other_args, other_uid_out, ics, parse_out, html, html_out, net,
                   steps, file, reqs, urls>>

NextGet == Call \/ Send \/ Text \/ ParseText \/ Synthesize \/ Respond \/ Exit \/ Abort

SpecGet == InitGet /\ [][NextGet]_vars

(***************************************************************************)
(* Properties of the pipeline.                                             *)
(***************************************************************************)
\* The calendars of the document before the first that fails to tokenize.
BeforeFirstErr(document) ==
    SubSeq(document, 1,
           (CHOOSE i \in 1..Len(document) :
                document[i].err /\ \A k \in 1..(i - 1) : ~document[k].err) - 1)

\* An event of the calendars has a DTSTART of fewer than 8 characters.
HasShortDtstart(calendars) ==
    \E i \in 1..Len(AllEvents(calendars)) :
        LET values == Values(AllEvents(calendars)[i], "DTSTART")
        IN values # <<>> /\ Len(values[1].value[1]) < 8

C17_FlagsBuildTheSameExclusionValue ==
    (pc # "start" /\ route \notin CategoryRoutes) =>
        /\ \A c \in Categories :
               contains(excluded_waste_types, CategoryBit(c)) <=> CategoryFlag(query_params, c)
        /\ excluded_waste_types
           = UNION { CategoryBit(c) : c \in { k \in Categories : CategoryFlag(query_params, k) } }
        /\ FromArguments(query_params) = excluded_waste_types
        /\ FromQueryParams(query_params) = excluded_waste_types
        /\ FromHandlerQueryParams(query_params) = excluded_waste_types
        /\ FromCliArgs(query_params) = excluded_waste_types

C17_Witness ==
    /\ pc = "done"
    /\ route = "cli"
    /\ { c \in Categories : CategoryFlag(query_params, c) } = {2, 5}
    /\ excluded_waste_types = Organic \cup Bulky

\* C18: when the fetch or the parse fails, the HTTP handler answers 500 with the
\* text of the error and no text/calendar body, and the CLI exits with the error
\* and does not write calendar.ics.
C18_FailureGivesErrorAndNoCalendar ==
    (pc = "done" /\ (net \in { "send_err", "text_err" }
                     \/ parse_out.status \in { "err", "panic" })) =>
        /\ route \in HttpEntries =>
               /\ answer.kind = "response"
               /\ answer.status = 500
               /\ answer.content_type # "text/calendar"
               /\ answer.body \in { ErrorText(f) : f \in Failed }
        /\ route \in CliEntries =>
               /\ answer.kind = "exit"
               /\ answer.code # 0
               /\ file.writes = 0

\* C19: get performs fetch, parse and synthesize in this order and each at most
\* once; one request is sent per invocation; parse runs only after the fetch
\* succeeded and synthesize only after parse succeeded.
C19_FetchParseSynthesizeOnce ==
    /\ steps = SubSeq(<<"fetch", "parse", "synthesize">>, 1, Len(steps))
    /\ Len(steps) >= 2 => net \notin { "send_err", "text_err" }
    /\ Len(steps) >= 3 => parse_out.status = "ok"
    /\ pc \in { "response", "text", "parsed", "got", "panicked", "done" } \cup Failed
           => Cardinality({ i \in 1..Len(steps) : steps[i] = "fetch" }) = 1
    /\ pc \in { "got" } => Len(steps) = 3
    /\ answer.kind = "response" /\ answer.status = 200 => Len(steps) = 3

C19_Witness ==
    /\ pc = "done"
    /\ steps = <<"fetch", "parse", "synthesize">>
    /\ calendar.events # <<>>

(***************************************************************************)
(* The two sources of one schedule: the HTML page and the ICS export that  *)
(* the official server publishes for an address, in the shapes the two     *)
(* extractors read.                                                        *)
(***************************************************************************)
\* A date as the HTML page prints it: DD.MM.YYYY.
HtmlDate(date) ==
    << digit(date.day \div 10), digit(date.day), ".",
       digit(date.month \div 10), digit(date.month), ".",
       digit(date.year \div 1000), digit(date.year \div 100), digit(date.year \div 10),
       digit(date.year) >>

\* A date as the ICS export prints it in DTSTART: YYYYMMDD.
IcsDate(date) ==
    << digit(date.year \div 1000), digit(date.year \div 100), digit(date.year \div 10),
       digit(date.year),
       digit(date.month \div 10), digit(date.month),
       digit(date.day \div 10), digit(date.day) >>

\* The inner markup of the date column of a row: a line per date.
RECURSIVE HtmlDateColumn(_)
HtmlDateColumn(dates) ==
    IF dates = <<>> THEN <<>>
    ELSE <<"<", "b", "r", ">", "F", "r", ".", " ", "d", "e", "n", " ">>
         \o HtmlDate(dates[1]) \o HtmlDateColumn(Tail(dates))

\* The HTML page of a schedule: a row per category that has dates.
HtmlPage(schedule) ==
    LET row(c) ==
            IF CategoryDates(schedule, c) = <<>> THEN <<>>
            ELSE IF c = 5
            THEN << Row(Some(LABEL_BULKY), <<>>,
                        Some(<<"<", "b", ">">> \o HtmlDate(schedule.bulky_waste[1]))) >>
            ELSE << Row(Some(CategoryLabel(c)), Some(HtmlDateColumn(CategoryDates(schedule, c))),
                        <<>>) >>
    IN row(1) \o row(2) \o row(3) \o row(4) \o row(5)

\* The events of a category in the ICS export: an event per date.
IcsEvents(schedule, c) ==
    [ i \in 1..Len(CategoryDates(schedule, c)) |->
          EventOf(CategoryLabel(c), IcsDate(CategoryDates(schedule, c)[i])) ]

\* All the ways to merge the sequences into one that keeps the order of each.
RECURSIVE Merges(_)
Merges(seqs) ==
    IF \A k \in 1..Len(seqs) : seqs[k] = <<>> THEN { <<>> }
    ELSE UNION { { <<seqs[k][1]>> \o m : m \in Merges([seqs EXCEPT ![k] = Tail(@)]) } :
                 k \in { j \in 1..Len(seqs) : seqs[j] # <<>> } }

\* The ICS exports of a schedule: one calendar, the events of the categories in
\* any order that keeps the order of each category.
IcsExports(schedule) ==
    { << [err |-> FALSE, events |-> events] >> :
          events \in Merges([c \in 1..5 |-> IcsEvents(schedule, c)]) }

\* The schedules the server publishes: valid dates, at most one bulky date.
PublishedSchedules ==
    { WasteData(t) : t \in { u \in Allocations(Dates, 5, MaxSeq) : Len(u[5]) <= 1 } }

InitSources ==
    /\ pc = "start"
    /\ waste_data \in PublishedSchedules
    /\ html = HtmlPage(waste_data)
    /\ ics \in IcsExports(waste_data)
    /\ html_out = [status |-> "none", waste_data |-> NoWasteData]
    /\ parse_out = [status |-> "none", waste_data |-> NoWasteData]
    /\ route = "none"
    /\ query_params = DefaultQueryParams
    /\ \E address \in Addresses : street = address.street /\ street_number = address.street_number
    /\ excluded_waste_types = none
    /\ calendar = NoCalendar
    /\ summary = <<>>
    /\ uid_out = <<>>
    /\ legacy_uid_out = <<>>
    /\ other_args = <<>>
    /\ other_uid_out = <<>>
    /\ net = "none"
    /\ steps = <<>>
    /\ answer = <<>>
    /\ file = <<>>
    /\ reqs = <<>>
    /\ urls = <<>>

\* get of the HTML-source client parses the page.
ExtractHtml ==
    /\ pc \in { "start", "ics_extracted" }
    /\ html_out' = legacy_parse(html)
    /\ pc' = IF pc = "start" THEN "html_extracted" ELSE "extracted"
    /\ UNCHANGED <<route, query_params, street, street_number, waste_data,
                   excluded_waste_types, calendar, summary, uid_out, legacy_uid_out,
                   other_args, other_uid_out, ics, parse_out, html, net, steps,
                   answer, file, reqs, urls>>

\* get of kgc_core parses the export.
ExtractIcs ==
    /\ pc \in { "start", "html_extracted" }
    /\ parse_out' = parse(ics)
    /\ pc' = IF pc = "start" THEN "ics_extracted" ELSE "extracted"
    /\ UNCHANGED <<route, query_params, street, street_number, waste_data,
                   excluded_waste_types, calendar, summary, uid_out, legacy_uid_out,
                   other_args, other_uid_out, ics, html, html_out, net, steps,
                   answer, file, reqs, urls>>

NextSources == ExtractHtml \/ ExtractIcs

SpecSources == InitSources /\ [][NextSources]_vars

\* C16: for the same schedule the HTML extractor and the ICS extractor return the
\* same date sequence for every category, the one that was published, and
\* get_calendar builds the same events from either.
C16_SameScheduleFromEitherSource ==
    pc = "extracted" =>
        /\ html_out.status = "ok" /\ parse_out.status = "ok"
        /\ \A c \in Categories :
               /\ CategoryDates(html_out.waste_data, c) = CategoryDates(parse_out.waste_data, c)
               /\ CategoryDates(parse_out.waste_data, c) = CategoryDates(waste_data, c)
        /\ get_calendar(street, street_number, html_out.waste_data, none, LaterReading).events
           = get_calendar(street, street_number, parse_out.waste_data, none, LaterReading).events

C16_Witness ==
    /\ pc = "extracted"
    /\ Len(parse_out.waste_data.bulky_waste) = 1
    /\ Len(html_out.waste_data.paper_waste) = 2
    /\ html_out.waste_data.paper_waste[1] # html_out.waste_data.paper_waste[2]
    /\ ics[1].events[1] = EventOf(LABEL_PAPER, IcsDate(waste_data.paper_waste[1]))
    /\ ics[1].events[2] = EventOf(LABEL_BULKY, IcsDate(waste_data.bulky_waste[1]))

(***************************************************************************)
(* The server: axum runs handler once per request, each run on a task of   *)
(* its own; the runs interleave at the await points of get.                *)
(***************************************************************************)
\* Requests in flight at the same time.
MaxRequests == 2

\* Variant: every run reads the locals of the first request, as if they were a static.
shared_locals(requests, i) == requests[1]

\* The parameters and locals of the run of handler for request i.
locals(requests, i) == requests[i]

OtherCalendar ==
    [err |-> FALSE,
     events |-> << EventOf(LABEL_ORGANIC, <<"2", "0", "2", "3", "0", "7", "1", "2">>) >>]

\* What the official server does to the POST of a request: the document it
\* answers with, or no answer.
Fetches ==
    { [net |-> "ok", document |-> <<GoodCalendar>>],
      [net |-> "ok", document |-> <<OtherCalendar, ErrCalendar>>],
      [net |-> "ok", document |-> <<ShortCalendar>>],
      [net |-> "send_err", document |-> <<>>] }

ServerAddresses ==
    { [street |-> <<"A", "m", " ", "W", "a", "l", "d">>, street_number |-> <<"1", " ", "a">>],
      [street |-> <<"B", "a", "c", "h">>, street_number |-> <<"2">>] }

Request(entry, address, fetch) ==
    [ pc |-> "start", route |-> entry, query_params |-> DefaultQueryParams,
      street |-> address.street, street_number |-> address.street_number,
      net |-> fetch.net, document |-> fetch.document,
      excluded_waste_types |-> none, waste_data |-> NoWasteData,
      changed |-> <<>>, answer |-> NoAnswer ]

Requests ==
    { Request(entry, address, fetch) :
          entry \in { "/calendar", "/calendar/paper" },
          address \in ServerAddresses, fetch \in Fetches }

InitServer ==
    /\ pc = "serving"
    /\ reqs \in [1..MaxRequests -> Requests]
    /\ urls = <<>>
    /\ ics = <<>>
    /\ parse_out = <<>>
    /\ html = <<>>
    /\ html_out = <<>>
    /\ net = "none"
    /\ steps = <<>>
    /\ answer = <<>>
    /\ file = <<>>
    /\ NoSynthesis

\* handler: the exclusion value of the request, then handle calls get.
ServeCall(i) ==
    LET r == locals(reqs, i)
    IN /\ reqs[i].pc = "start"
       /\ reqs' = [reqs EXCEPT ![i].pc = "get",
                               ![i].excluded_waste_types = EntryMask(r.route, r.query_params)]

\* get: get_response(..).await? and response.text().await?
ServeFetch(i) ==
    LET r == locals(reqs, i)
    IN /\ reqs[i].pc = "get"
       /\ reqs' = [reqs EXCEPT ![i].pc = IF r.net = "send_err" THEN "failed_send" ELSE "text"]

\* get: parse(..)?
ServeParse(i) ==
    LET r == locals(reqs, i)
        parsed == parse(r.document)
    IN /\ reqs[i].pc = "text"
       /\ reqs' = [reqs EXCEPT ![i].pc = IF parsed.status = "ok" THEN "parsed"
                                         ELSE IF parsed.status = "err" THEN "failed_parse"
                                         ELSE "panicked",
                               ![i].waste_data = parsed.waste_data]

\* get: get_calendar(..); handle: the response.
ServeRespond(i) ==
    LET r == locals(reqs, i)
        at == reqs[i].pc
    IN /\ at \in { "parsed", "panicked" } \cup Failed
       /\ \E changed \in Now :
              reqs' = [reqs EXCEPT
                  ![i].pc = "done",
                  ![i].changed = IF at = "parsed" THEN changed ELSE @,
                  ![i].answer =
                      IF at = "parsed"
                      THEN [kind |-> "response", status |-> 200,
                            content_type |-> "text/calendar",
                            body |-> get_calendar(r.street, r.street_number, r.waste_data,
                                                  r.excluded_waste_types, changed)]
                      ELSE IF at = "panicked" THEN [kind |-> "connection closed"]
                      ELSE [kind |-> "response", status |-> 500,
                            content_type |-> "text/plain", body |-> ErrorText(at)]]

Serve ==
    /\ \E i \in 1..MaxRequests : ServeCall(i) \/ ServeFetch(i) \/ ServeParse(i) \/ ServeRespond(i)
    /\ UNCHANGED <<pc, route, query_params, street, street_number, waste_data,
                   excluded_waste_types, calendar, summary, uid_out, legacy_uid_out,
                   other_args, other_uid_out, ics, parse_out, html, html_out, net,
                   steps, answer, file, urls>>

NextServer == Serve

SpecServer == InitServer /\ [][NextServer]_vars

\* What the request gets when it is the only one the server handles.
AnswerAlone(r) ==
    IF r.net = "send_err"
    THEN [kind |-> "response", status |-> 500, content_type |-> "text/plain",
          body |-> "error sending request"]
    ELSE LET parsed == parse(r.document)
         IN IF parsed.status = "err"
            THEN [kind |-> "response", status |-> 500, content_type |-> "text/plain",
                  body |-> "ical parse error"]
            ELSE IF parsed.status = "panic" THEN [kind |-> "connection closed"]
            ELSE [kind |-> "response", status |-> 200, content_type |-> "text/calendar",
                  body |-> get_calendar(r.street, r.street_number, parsed.waste_data,
                                        IF r.route = "/calendar" THEN none ELSE InvertedPaper,
                                        r.changed)]

\* C20: under every interleaving, what a request gets is what its own address,
\* document and exclusion value give when the request runs alone.
C20_RequestsDoNotInterfere ==
    \A i \in DOMAIN reqs : reqs[i].pc = "done" => reqs[i].answer = AnswerAlone(reqs[i])

C20_Witness ==
    /\ pc = "serving"
    /\ reqs[1].pc = "done" /\ reqs[2].pc = "text"
    /\ reqs[1].answer.kind = "response" /\ reqs[1].answer.status = 200
    /\ reqs[1].street # reqs[2].street
    /\ reqs[1].route # reqs[2].route
    /\ reqs[1].document # reqs[2].document

(***************************************************************************)
(* Further properties of the synthesizer.                                  *)
(***************************************************************************)
\* The synthesizer of the run that was made, run again at the given reading.
Again(changed) ==
    IF pc = "legacy_done"
    THEN legacy_get_calendar(street, street_number, waste_data, excluded_waste_types, changed)
    ELSE get_calendar(street, street_number, waste_data, excluded_waste_types, changed)

\* C21: a second run of get_calendar with the same address, schedule and
\* exclusion value, at any reading of the clock, gives the same version, the same
\* product identifier and the same events in the same order, every property
\* equal but the timestamp.
C21_SameCalendarButTimestamp ==
    pc \in {"done", "legacy_done"} =>
        \A changed \in Now :
            /\ Again(changed).VERSION = calendar.VERSION
            /\ Again(changed).PRODID = calendar.PRODID
            /\ WithoutTimestamp(Again(changed).events) = WithoutTimestamp(calendar.events)

C21_Witness ==
    /\ pc = "done"
    /\ Len(calendar.events) >= 2
    /\ calendar.events[1].CHANGED # LaterReading
    /\ Again(LaterReading).events[1].CHANGED = LaterReading
    /\ Again(LaterReading).events[1].UID = calendar.events[1].UID

\* The place of a label in the canonical order.
CategoryOf(label) == CHOOSE c \in Categories : CategoryLabel(c) = label

DateKey(s) == digits_value(s)

\* C22: the events of a calendar are in the order Residual, Organic, Recyclable,
\* Paper, Bulky of their categories, whatever their dates.
C22_EventsInCategoryOrder ==
    pc \in {"done", "legacy_done"} =>
        \A i \in 1..Len(calendar.events) : \A j \in 1..Len(calendar.events) :
            i < j => CategoryOf(calendar.events[i].SUMMARY)
                     < CategoryOf(calendar.events[j].SUMMARY)

C22_Witness ==
    /\ pc = "done"
    /\ Len(calendar.events) = 2
    /\ calendar.events[1].SUMMARY = LABEL_ORGANIC
    /\ calendar.events[2].SUMMARY = LABEL_BULKY
    /\ DateKey(calendar.events[2].DTSTART) < DateKey(calendar.events[1].DTSTART)

\* C23: all events of a calendar carry one timestamp, a reading of the clock.
C23_OneTimestampPerCalendar ==
    pc \in {"done", "legacy_done"} =>
        \E changed \in Now :
            \A i \in 1..Len(calendar.events) : calendar.events[i].CHANGED = changed

C23_Witness ==
    /\ pc = "done"
    /\ Len(calendar.events) = 5
    /\ calendar.events[5].CHANGED # LaterReading

Has(event, name, value) == name \in DOMAIN event /\ event[name] = value

Carries(event, name) == name \in DOMAIN event /\ event[name] # <<>>

\* C24: every event of either synthesizer carries SUMMARY (a category label), UID,
\* DTSTART, RDATE tagged VALUE=DATE, LOCATION "<street> <number>, Karlsruhe",
\* DESCRIPTION (the source URL) and TRANSP (TRANSPARENT).
C24_EveryEventCarriesAllProperties ==
    pc \in {"done", "legacy_done"} =>
        \A i \in 1..Len(calendar.events) :
            LET event == calendar.events[i]
            IN /\ \E c \in Categories : Has(event, "SUMMARY", CategoryLabel(c))
               /\ Carries(event, "UID")
               /\ Carries(event, "DTSTART")
               /\ Carries(event, "RDATE")
               /\ Has(event, "RDATE_VALUE", <<"D", "A", "T", "E">>)
               /\ Has(event, "LOCATION",
                      street \o <<" ">> \o street_number
                      \o <<",", " ", "K", "a", "r", "l", "s", "r", "u", "h", "e">>)
               /\ Has(event, "DESCRIPTION", URL)
               /\ Has(event, "TRANSP", <<"T", "R", "A", "N", "S", "P", "A", "R", "E", "N", "T">>)

\* C28: the events of one calendar have pairwise distinct UID and pairwise
\* distinct SUMMARY.
C28_DistinctUidAndSummary ==
    pc \in {"done", "legacy_done"} =>
        \A i \in 1..Len(calendar.events) : \A j \in 1..Len(calendar.events) :
            i # j => /\ calendar.events[i].UID # calendar.events[j].UID
                     /\ calendar.events[i].SUMMARY # calendar.events[j].SUMMARY

C28_Witness ==
    /\ pc = "done"
    /\ Len(calendar.events) = 5
    /\ \E i \in 1..Len(street) : street[i] \in Whitespace
    /\ \E i \in 1..Len(street_number) : street_number[i] \in Whitespace

(***************************************************************************)
(* Further properties of the pipeline.                                     *)
(***************************************************************************)
\* C29: when the official server answers with an error status, get returns an
\* error: the body is not parsed into a schedule and no calendar is built from
\* it, answered or written.
C29_ErrorStatusIsFetchFailure ==
    net = "status_err" =>
        /\ "parse" \notin { steps[i] : i \in 1..Len(steps) }
        /\ pc \notin { "text", "parsed", "got" }
        /\ calendar = NoCalendar
        /\ pc = "done" => /\ file.writes = 0
                          /\ answer.kind = "response" => answer.status = 500

(***************************************************************************)
(* Further properties of the HTML extractor.                               *)
(***************************************************************************)
\* The labels of the categories that the type column of the row holds.
LabelsHeld(row) ==
    IF row.type_col = <<>> THEN {}
    ELSE { c \in Categories : Occurs(CategoryLabel(c), row.type_col[1]) }

\* The document with the type column of row i holding the label of c and no more.
Relabelled(rows, i, c) == [rows EXCEPT ![i].type_col = Some(CategoryLabel(c))]

\* C25: a row whose type column holds the labels of several categories is
\* extracted like the row with the label of the first of them in the order
\* Residual, Organic, Recyclable, Paper, Bulky alone, and a row whose type column
\* holds no label is extracted like no row.
C25_FirstLabelInOrderTakesTheRow ==
    pc = "html_parsed" =>
        \A i \in 1..Len(html) :
            /\ Cardinality(LabelsHeld(html[i])) >= 2 =>
                   LET first == CHOOSE c \in LabelsHeld(html[i]) :
                                    \A d \in LabelsHeld(html[i]) : c <= d
                   IN html_out = legacy_parse(Relabelled(html, i, first))
            /\ (html[i].type_col # <<>> /\ LabelsHeld(html[i]) = {}) =>
                   html_out = legacy_parse(RemoveAt(html, i))

C25_Witness ==
    /\ pc = "html_parsed"
    /\ html_out.status = "ok"
    /\ Len(html) = 2
    /\ LabelsHeld(html[1]) = {}
    /\ html[1].type_col # <<>>
    /\ LabelsHeld(html[2]) = {1, 4}
    /\ html_out.waste_data.residual_waste = << [year |-> 2023, month |-> 6, day |-> 30] >>
    /\ html_out.waste_data.paper_waste = <<>>

\* The first row of category c that has a date column.
FirstRows(c) ==
    { i \in 1..Len(html) : /\ Arm(html[i]) = c
                           /\ DateColumn(html[i]) # <<>>
                           /\ \A k \in 1..(i - 1) :
                                  ~(Arm(html[k]) = c /\ DateColumn(html[k]) # <<>>) }

\* The dates that the date column of row i spells after the ends of tags.
RowDates(i) ==
    LET s == html[i].date_col[1]
    IN DatesAt(s, { j \in 1..Len(s) : DateTextAt(s, j) /\ FollowsTag(s, j) })

\* C26: when no row lacks its date column and every row of a category has dates,
\* the sequence of the category is the dates of the first row of the category in
\* document order.
C26_FirstRowOfCategoryWins ==
    ( /\ pc = "html_parsed"
      /\ html_out.status = "ok"
      /\ \A k \in 1..Len(html) : ~LacksDateColumn(html[k]) ) =>
        \A c \in 1..4 :
            (\A k \in 1..Len(html) :
                 Arm(html[k]) = c => (html[k].date_col # <<>> /\ RowDates(k) # <<>>))
                => \A i \in FirstRows(c) : CategoryDates(html_out.waste_data, c) = RowDates(i)

\* DD.MM.YYYY starts at position j of s.
DateAt(s, j) ==
    /\ j + 9 <= Len(s)
    /\ \A k \in {0, 1, 3, 4, 6, 7, 8, 9} : is_digit(s[j + k])
    /\ s[j + 2] = "." /\ s[j + 5] = "."

\* ">DD.MM.YYYY" starts at position i of s.
BulkyTextAt(s, i) == s[i] = ">" /\ DateAt(s, i + 1)

\* ">", any whitespace and DD.MM.YYYY start at position i of s.
BulkyTextAfterTagAt(s, i) ==
    /\ s[i] = ">"
    /\ \E j \in (i + 1)..Len(s) : DateAt(s, j) /\ \A k \in (i + 1)..(j - 1) : s[k] \in Whitespace

\* The date that the first of the occurrences spells, if it is a calendar date.
FirstBulkyDate(s, occurrences) ==
    IF occurrences = {} THEN <<>>
    ELSE LET i == CHOOSE p \in occurrences : \A q \in occurrences : p <= q
             j == CHOOSE p \in (i + 1)..Len(s) : DateAt(s, p)
                                                /\ \A k \in (i + 1)..(p - 1) : s[k] \in Whitespace
             day == digits_value(SubSeq(s, j, j + 1))
             month == digits_value(SubSeq(s, j + 3, j + 4))
             year == digits_value(SubSeq(s, j + 6, j + 9))
         IN IF month \in 1..12 /\ day \in 1..days_in_month(year, month)
            THEN << [year |-> year, month |-> month, day |-> day] >>
            ELSE <<>>

\* The row that decides the bulky date: the last Bulky row with a bulky column
\* that the scan gets to.
DecidingBulkyRows ==
    { i \in ReachedRows : /\ Arm(html[i]) = 5
                          /\ html[i].bulky_col # <<>>
                          /\ \A k \in ReachedRows :
                                 (Arm(html[k]) = 5 /\ html[k].bulky_col # <<>>) => k <= i }

\* The Bulky events that the synthesizer builds from the extracted schedule.
BulkyEvents ==
    EventsOf(legacy_get_calendar(street, street_number, html_out.waste_data, none,
                                 LaterReading), 5)

Location == <<"h", "t", "t", "p", ":", "/", "/", "l", "o", "c", "a", "l", "h", "o", "s", "t", ":", "8", "0", "0", "8", "/", "i", "n", "d", "e", "x", ".", "h", "t", "m", "l", "?", "l", "a", "n", "g", "=", "d", "e", "#", "t", "o", "p">>

\* The percent-encoded UTF-8 bytes of the characters that the
\* application/x-www-form-urlencoded serializer does not leave as they are; the
\* space becomes "+".
Escapes ==
    { [ch |-> "&", code |-> <<"%", "2", "6">>],
      [ch |-> "=", code |-> <<"%", "3", "D">>],
      [ch |-> "+", code |-> <<"%", "2", "B">>],
      [ch |-> "%", code |-> <<"%", "2", "5">>],
      [ch |-> "#", code |-> <<"%", "2", "3">>],
      [ch |-> "?", code |-> <<"%", "3", "F">>],
      [ch |-> "/", code |-> <<"%", "2", "F">>],
      [ch |-> "ß", code |-> <<"%", "C", "3", "%", "9", "F">>] }

\* UrlSearchParams::to_string, one character.
urlencoded_byte(ch) ==
    IF ch = " " THEN <<"+">>
    ELSE IF \E e \in Escapes : e.ch = ch THEN (CHOOSE e \in Escapes : e.ch = ch).code
    ELSE <<ch>>

RECURSIVE urlencoded(_)
urlencoded(s) == IF s = <<>> THEN <<>> ELSE urlencoded_byte(s[1]) \o urlencoded(Tail(s))

\* UrlSearchParams::set: the value of the first pair of that name is replaced (and
\* the later pairs of that name removed), or the pair is appended.
set(params, name, value) ==
    IF \E i \in 1..Len(params) : params[i].name = name
    THEN LET first == CHOOSE i \in 1..Len(params) :
                          /\ params[i].name = name
                          /\ \A k \in 1..(i - 1) : params[k].name # name
             replaced == [params EXCEPT ![first].value = value]
             kept == { i \in 1..Len(params) : i = first \/ params[i].name # name }
             nth(j) == CHOOSE i \in kept : Cardinality({ k \in kept : k <= i }) = j
         IN [ j \in 1..Cardinality(kept) |-> replaced[nth(j)] ]
    ELSE Append(params, [name |-> name, value |-> value])

\* UrlSearchParams::to_string: name=value of every pair, joined by "&".
to_string(params) ==
    join([ i \in 1..Len(params) |->
               urlencoded(params[i].name) \o <<"=">> \o urlencoded(params[i].value) ], <<"&">>)

\* Url::new_with_base(path, base) for a path that starts with "/": the scheme and
\* the authority of the base, then the path; query and fragment of the base go.
new_with_base(path, base) ==
    LET slashes == { i \in 1..Len(base) : base[i] = "/" }
        third == CHOOSE i \in slashes : Cardinality({ k \in slashes : k <= i }) = 3
    IN SubSeq(base, 1, third - 1) \o path

\* Url::set_search: the query percent-encode set of a special scheme is applied to
\* the string, which then follows "?"; an empty string removes the query.
RECURSIVE query_encoded(_)
query_encoded(s) ==
    IF s = <<>> THEN <<>>
    ELSE (IF s[1] = " " THEN <<"%", "2", "0">>
          ELSE IF s[1] = "#" THEN <<"%", "2", "3">>
          ELSE IF s[1] = "<" THEN <<"%", "3", "C">>
          ELSE IF s[1] = ">" THEN <<"%", "3", "E">>
          ELSE IF s[1] = "'" THEN <<"%", "2", "7">>
          ELSE <<s[1]>>) \o query_encoded(Tail(s))

set_search(url, search) ==
    IF search = <<>> THEN url ELSE url \o <<"?">> \o query_encoded(search)

\* App: the closure calendar_url_search_params
calendar_url_search_params(a, b) ==
    set(set(<<>>, <<"s", "t", "r", "e", "e", "t">>, a),
        <<"s", "t", "r", "e", "e", "t", "_", "n", "u", "m", "b", "e", "r">>, b)

\* App: the closure calendar_url
calendar_url(path, url_search_params) ==
    set_search(new_with_base(path, Location), to_string(url_search_params))

CategoryNames ==
    << <<"r", "e", "s", "i", "d", "u", "a", "l">>,
       <<"o", "r", "g", "a", "n", "i", "c">>,
       <<"r", "e", "c", "y", "c", "l", "a", "b", "l", "e">>,
       <<"p", "a", "p", "e", "r">>,
       <<"b", "u", "l", "k", "y">> >>

\* App: the closure specific_calendar_url, format!("/calendar/{}", type)
specific_calendar_url(a, b, type) ==
    calendar_url(<<"/", "c", "a", "l", "e", "n", "d", "a", "r", "/">> \o type,
                 calendar_url_search_params(a, b))

ExcludeName(c) == <<"e", "x", "c", "l", "u", "d", "e", "_">> \o CategoryNames[c]

\* App: the closure of main_url_handle
main_calendar_url(a, b, flags) ==
    LET p0 == calendar_url_search_params(a, b)
        p1 == IF flags.exclude_residual THEN set(p0, ExcludeName(1), <<"t", "r", "u", "e">>) ELSE p0
        p2 == IF flags.exclude_organic THEN set(p1, ExcludeName(2), <<"t", "r", "u", "e">>) ELSE p1
        p3 == IF flags.exclude_recyclable THEN set(p2, ExcludeName(3), <<"t", "r", "u", "e">>) ELSE p2
        p4 == IF flags.exclude_paper THEN set(p3, ExcludeName(4), <<"t", "r", "u", "e">>) ELSE p3
        p5 == IF flags.exclude_bulky THEN set(p4, ExcludeName(5), <<"t", "r", "u", "e">>) ELSE p4
    IN calendar_url(<<"/", "c", "a", "l", "e", "n", "d", "a", "r">>, p5)

\* Variant: the dependencies of the memo of a per-category URL are the street only.
specific_deps_street_only(a, b) == <<a>>

\* App: the dependencies of the memo of a per-category URL
specific_deps(a, b) == <<a, b>>

\* App: the dependencies of the memo of the main URL
main_deps(a, b, flags) == <<a, b, flags>>

\* use_memo: the value is computed again when the dependencies have changed.
use_memo(computed, deps, old_deps, old_value) ==
    IF deps = old_deps THEN old_value ELSE computed

\* App: a render with the state (a, b, flags) after a render with the state
\* (old_a, old_b, old_flags) that displayed old.
render(a, b, flags, old_a, old_b, old_flags, old) ==
    [ main |-> use_memo(main_calendar_url(a, b, flags), main_deps(a, b, flags),
                        main_deps(old_a, old_b, old_flags), old.main),
      specific |-> [ c \in 1..5 |->
                        use_memo(specific_calendar_url(a, b, CategoryNames[c]),
                                 specific_deps(a, b), specific_deps(old_a, old_b),
                                 old.specific[c]) ] ]

\* App: the first render.
first_render(a, b, flags) ==
    [ main |-> main_calendar_url(a, b, flags),
      specific |-> [ c \in 1..5 |-> specific_calendar_url(a, b, CategoryNames[c]) ] ]

\* What the user types into the two text inputs.
StreetInputs ==
    { <<>>, <<"A", "m", " ", "W", "a", "l", "d">>, <<"a", "&", "b", "=", "c">>, <<"ß", "+", "%">>, <<"#", "?", "/">> }

StreetNumberInputs == { <<>>, <<"1", " ", "a">>, <<"2">> }

(***************************************************************************)
(* Specification of the front-end.                                         *)
(***************************************************************************)
InitFrontend ==
    /\ pc = "rendered"
    /\ street = <<>>
    /\ street_number = <<>>
    /\ query_params = DefaultQueryParams
    /\ urls = first_render(<<>>, <<>>, DefaultQueryParams)
    /\ route = "none"
    /\ waste_data = NoWasteData
    /\ excluded_waste_types = none
    /\ calendar = NoCalendar
    /\ summary = <<>>
    /\ uid_out = <<>>
    /\ legacy_uid_out = <<>>
    /\ other_args = <<>>
    /\ other_uid_out = <<>>
    /\ ics = <<>>
    /\ parse_out = <<>>
    /\ html = <<>>
    /\ html_out = <<>>
    /\ net = "none"
    /\ steps = <<>>
    /\ answer = <<>>
    /\ file = <<>>
    /\ reqs = <<>>

\* The state handles are set and App renders again.
SetState(a, b, flags) ==
    /\ pc = "rendered"
    /\ street' = a
    /\ street_number' = b
    /\ query_params' = flags
    /\ urls' = render(a, b, flags, street, street_number, query_params, urls)
    /\ UNCHANGED <<pc, route, waste_data, excluded_waste_types, calendar, summary,
                   uid_out, legacy_uid_out, other_args, other_uid_out, ics, parse_out,
                   html, html_out, net, steps, answer, file, reqs>>

\* on_input_street: street_handle.set(value of the input)
OnInputStreet == \E value \in StreetInputs : SetState(value, street_number, query_params)

\* on_input_street_number
OnInputStreetNumber ==
    \E value \in StreetNumberInputs : SetState(street, value, query_params)

\* on_input_exclude_residual: exclude_residual_handle.set(checked of the input)
OnInputExcludeResidual ==
    \E checked \in BOOLEAN :
        SetState(street, street_number, [query_params EXCEPT !.exclude_residual = checked])

OnInputExcludeOrganic ==
    \E checked \in BOOLEAN :
        SetState(street, street_number, [query_params EXCEPT !.exclude_organic = checked])

OnInputExcludeRecyclable ==
    \E checked \in BOOLEAN :
        SetState(street, street_number, [query_params EXCEPT !.exclude_recyclable = checked])

OnInputExcludePaper ==
    \E checked \in BOOLEAN :
        SetState(street, street_number, [query_params EXCEPT !.exclude_paper = checked])

OnInputExcludeBulky ==
    \E checked \in BOOLEAN :
        SetState(street, street_number, [query_params EXCEPT !.exclude_bulky = checked])

NextFrontend ==
    \/ OnInputStreet
    \/ OnInputStreetNumber
    \/ OnInputExcludeResidual
    \/ OnInputExcludeOrganic
    \/ OnInputExcludeRecyclable
    \/ OnInputExcludePaper
    \/ OnInputExcludeBulky

SpecFrontend == InitFrontend /\ [][NextFrontend]_vars

(***************************************************************************)
(* Properties of the front-end.                                            *)
(***************************************************************************)
\* The pieces of s between the occurrences of the separator.
RECURSIVE Split(_, _)
Split(s, sep) ==
    LET at == { i \in 1..Len(s) : s[i] = sep }
    IN IF at = {} THEN << s >>
       ELSE LET first == CHOOSE i \in at : \A j \in at : i <= j
            IN << SubSeq(s, 1, first - 1) >> \o Split(SubSeq(s, first + 1, Len(s)), sep)

\* The string that a server reads out of a piece of a query: "+" is a space and
\* "%XX" the byte XX.
RECURSIVE Decoded(_)
Decoded(s) ==
    IF s = <<>> THEN <<>>
    ELSE IF s[1] = "+" THEN <<" ">> \o Decoded(Tail(s))
    ELSE IF s[1] = "%"
    THEN LET e == CHOOSE x \in Escapes \cup { [ch |-> " ", code |-> <<"%", "2", "0">>] } :
                      SubSeq(s, 1, Len(x.code)) = x.code
         IN <<e.ch>> \o Decoded(SubSeq(s, Len(e.code) + 1, Len(s)))
    ELSE <<s[1]>> \o Decoded(Tail(s))

\* The path of a displayed URL: what stands between the authority and "?".
PathOf(url) == Split(SubSeq(url, Len(<<"h", "t", "t", "p", ":", "/", "/", "l", "o", "c", "a", "l", "h", "o", "s", "t", ":", "8", "0", "0", "8">>) + 1, Len(url)), "?")[1]

\* The pairs of name and value that the query of a displayed URL holds.
QueryOf(url) ==
    LET question == CHOOSE i \in 1..Len(url) : url[i] = "?" /\ \A k \in 1..(i - 1) : url[k] # "?"
        pieces == Split(SubSeq(url, question + 1, Len(url)), "&")
    IN { << Decoded(Split(pieces[i], "=")[1]), Decoded(Split(pieces[i], "=")[2]) >> :
             i \in 1..Len(pieces) }

AddressPairs ==
    { << <<"s", "t", "r", "e", "e", "t">>, street >>,
      << <<"s", "t", "r", "e", "e", "t", "_", "n", "u", "m", "b", "e", "r">>, street_number >> }

\* C30: after any sequence of input events the main URL has the path /calendar and
\* a query of the current street, the current street number and
\* exclude_<category>=true for exactly the checked categories, and the URL of
\* every category has the path /calendar/<category> and a query of the current
\* street and street number only.
C30_DisplayedUrlsFollowTheInputs ==
    pc = "rendered" =>
        /\ PathOf(urls.main) = <<"/", "c", "a", "l", "e", "n", "d", "a", "r">>
        /\ QueryOf(urls.main)
           = AddressPairs
             \cup { << ExcludeName(c), <<"t", "r", "u", "e">> >> :
                        c \in { k \in Categories : CategoryFlag(query_params, k) } }
        /\ \A c \in Categories :
               /\ PathOf(urls.specific[c])
                  = <<"/", "c", "a", "l", "e", "n", "d", "a", "r", "/">> \o CategoryNames[c]
               /\ QueryOf(urls.specific[c]) = AddressPairs

C30_Witness ==
    /\ pc = "rendered"
    /\ street = <<"a", "&", "b", "=", "c">>
    /\ street_number = <<"1", " ", "a">>
    /\ query_params.exclude_paper /\ ~query_params.exclude_residual
    /\ urls.specific[4]
       = <<"h", "t", "t", "p", ":", "/", "/", "l", "o", "c", "a", "l", "h", "o", "s", "t", ":", "8", "0", "0", "8", "/", "c", "a", "l", "e", "n", "d", "a", "r", "/", "p", "a", "p", "e", "r", "?", "s", "t", "r", "e", "e", "t", "=", "a", "%", "2", "6", "b", "%", "3", "D", "c", "&", "s", "t", "r", "e", "e", "t", "_", "n", "u", "m", "b", "e", "r", "=", "1", "+", "a">>
====
